---------------------------- MODULE Spec2Model ----------------------------
(***************************************************************************)
(* A model of the DeFi visualizer agent: the template registry             *)
(* (templates/template-interface.ts), the generateVisualization            *)
(* capability, the content formatter, the distribution orchestrator        *)
(* (distribution/social-distributor, whose code is in                      *)
(* distribution/capabilities.ts from line 349 on), campaign assembly,      *)
(* format conversion and saving (distribution/file-distributor.ts), the    *)
(* templates' generate, and the capabilities that save and distribute.     *)
(*                                                                         *)
(* Each component is checked under its own specification.  Init is the     *)
(* state after the module-level construction of the registry; InitLoaded   *)
(* is the state of the agent process after the built-in templates have     *)
(* been registered.                                                        *)
(*                                                                         *)
(* Strings that the code takes apart (ids searched for a substring, tags   *)
(* stripped of whitespace, messages truncated) are sequences of            *)
(* one-character strings; strings that the code only builds are TLA+       *)
(* strings joined with \o.  An optional value (T | undefined) is a         *)
(* sequence of at most one element: None or Some(x).                       *)
(***************************************************************************)
EXTENDS Integers, Sequences, FiniteSets, TLC

VARIABLES
    templates,   \* TemplateRegistry.templates: the Map, as its entries in insertion order
    regLog,      \* every descriptor passed to register, in call order
    lastCall,    \* the last registry query and what it returned
    content,     \* the last call of the content formatter and what it returned
    pub,         \* the publish call in progress: arguments, position, results so far
    fileExists,  \* whether the image file is on disk
    calls,       \* the platform integration calls made so far, with their outcome
    campaign,    \* the createSocialCampaign call in progress and what it has built
    conv,        \* the convertVisualization call in progress: arguments, position, result
    files,       \* the output directory: the paths on disk and what each file holds
    browsers,    \* the headless browsers launched so far: "open" or "closed"
    render,      \* the last generate call on a template: payload before and after
    saves        \* the invocations of the saving capabilities: arguments, position, result

vars == <<templates, regLog, lastCall, content, pub, fileExists, calls,
          campaign, conv, files, browsers, render, saves>>

None == <<>>
Some(x) == <<x>>

Range(s) == {s[i] : i \in 1..Len(s)}

RECURSIVE StrOf(_)
\* The TLA+ string of a sequence of characters.
StrOf(cs) == IF cs = <<>> THEN "" ELSE Head(cs) \o StrOf(Tail(cs))

\* String.prototype.includes: sub occurs in s as a contiguous run.
Includes(s, sub) ==
    \E i \in 0..(Len(s) - Len(sub)) : SubSeq(s, i + 1, i + Len(sub)) = sub

(***************************************************************************)
(* Template registry                                                       *)
(***************************************************************************)

\* Bound: the number of register calls in one run.
MaxRegs == 3

PriceChartId == <<"p","r","i","c","e","-","c","h","a","r","t">>
TvlChartId == <<"t","v","l","-","c","h","a","r","t">>
MarketOverviewId == <<"m","a","r","k","e","t","-","o","v","e","r","v","i","e","w">>

\* What a payload field holds, as far as the suitability probes can tell.
Truthy(k) == k \in {"number", "string", "array", "object"}
IsArray(k) == k = "array"
TypeofObject(k) == k \in {"array", "object"}
TypeofNumber(k) == k \in {"number", "zero"}

EmptyPayload ==
    [isNull |-> FALSE, historicalPrices |-> "undefined", price |-> "undefined",
     priceUsd |-> "undefined", tvl |-> "undefined", historicalTvl |-> "undefined",
     topTokens |-> "undefined", topProtocols |-> "undefined"]

\* The payloads the registry is queried with.
Payloads ==
    { [EmptyPayload EXCEPT !.isNull = TRUE],
      EmptyPayload,
      [EmptyPayload EXCEPT !.historicalTvl = "array"],
      [EmptyPayload EXCEPT !.price = "object", !.priceUsd = "number"],
      [EmptyPayload EXCEPT !.price = "object", !.priceUsd = "zero", !.tvl = "object"],
      [EmptyPayload EXCEPT !.price = "object", !.priceUsd = "string", !.tvl = "number",
                           !.historicalTvl = "string"],
      [EmptyPayload EXCEPT !.topTokens = "array", !.topProtocols = "array",
                           !.historicalPrices = "array"],
      [EmptyPayload EXCEPT !.topProtocols = "array", !.historicalTvl = "array",
                           !.topTokens = "object"],
      [EmptyPayload EXCEPT !.price = "object", !.priceUsd = "string",
                           !.historicalPrices = "string", !.historicalTvl = "array"] }

\* A token-price probe that takes any array-valued history, the TVL one included.
PriceChartAcceptsAnyHistory(data) ==
    /\ ~data.isNull
    /\ \/ Truthy(data.historicalPrices) /\ IsArray(data.historicalPrices)
       \/ Truthy(data.historicalTvl) /\ IsArray(data.historicalTvl)
       \/ Truthy(data.price) /\ TypeofNumber(data.priceUsd)

PriceChartIsSuitableFor(data) ==
    /\ ~data.isNull
    /\ \/ Truthy(data.historicalPrices) /\ IsArray(data.historicalPrices)
       \/ Truthy(data.price) /\ TypeofNumber(data.priceUsd)

TvlChartIsSuitableFor(data) ==
    /\ ~data.isNull
    /\ \/ Truthy(data.tvl) /\ TypeofObject(data.tvl)
       \/ Truthy(data.historicalTvl) /\ IsArray(data.historicalTvl)

MarketOverviewIsSuitableFor(data) ==
    /\ ~data.isNull
    /\ \/ Truthy(data.topTokens) /\ IsArray(data.topTokens)
       \/ Truthy(data.topProtocols) /\ IsArray(data.topProtocols)

\* template.isSuitableFor(data): the probe of the descriptor's class.
isSuitableFor(t, data) ==
    CASE t.cls = "PriceChartTemplate" -> PriceChartIsSuitableFor(data)
      [] t.cls = "TvlChartTemplate" -> TvlChartIsSuitableFor(data)
      [] t.cls = "MarketOverviewTemplate" -> MarketOverviewIsSuitableFor(data)

\* The descriptors that get registered: the three built-in templates and
\* descriptors that reuse an id with another name and another probe.
Descriptors ==
    { [id |-> PriceChartId, name |-> "Token Price Chart", cls |-> "PriceChartTemplate"],
      [id |-> TvlChartId, name |-> "TVL Chart", cls |-> "TvlChartTemplate"],
      [id |-> MarketOverviewId, name |-> "Market Overview", cls |-> "MarketOverviewTemplate"],
      [id |-> PriceChartId, name |-> "Price Chart v2", cls |-> "TvlChartTemplate"],
      [id |-> TvlChartId, name |-> "TVL Chart v2", cls |-> "MarketOverviewTemplate"],
      [id |-> MarketOverviewId, name |-> "Market Overview v2", cls |-> "PriceChartTemplate"] }

Ids == {d.id : d \in Descriptors}

\* preferredType: not given, or one of these strings.
Hints ==
    { None, Some(<<>>), Some(<<"c","h","a","r","t">>), Some(<<"t","v","l">>),
      Some(<<"m","a","r","k","e","t">>), Some(<<"p","i","e">>) }

\* A register that pushes the descriptor without looking for its id.
registerAlwaysAppends(ts, template) == Append(ts, template)

\* A register that deletes the id before it sets it: the descriptor moves to
\* the end.
registerMovesToEnd(ts, template) ==
    LET Other(t) == t.id # template.id IN Append(SelectSeq(ts, Other), template)

\* Map.prototype.set(template.id, template): an existing key keeps its place.
register(ts, template) ==
    IF \E i \in 1..Len(ts) : ts[i].id = template.id
    THEN [i \in 1..Len(ts) |-> IF ts[i].id = template.id THEN template ELSE ts[i]]
    ELSE Append(ts, template)

\* Map.prototype.get(id)
get(ts, id) ==
    IF \E i \in 1..Len(ts) : ts[i].id = id
    THEN Some(ts[CHOOSE i \in 1..Len(ts) : ts[i].id = id])
    ELSE None

\* Array.from(this.templates.values())
getAll(ts) == ts

RECURSIVE Reverse(_)
Reverse(s) == IF s = <<>> THEN <<>> ELSE Append(Reverse(Tail(s)), Head(s))

\* A findSuitableTemplates that returns the matches last-registered first.
findSuitableReversed(ts, data) ==
    LET Test(t) == isSuitableFor(t, data) IN Reverse(SelectSeq(getAll(ts), Test))

findSuitableTemplates(ts, data) ==
    LET Test(t) == isSuitableFor(t, data) IN SelectSeq(getAll(ts), Test)

\* Array.prototype.find on the suitable templates, as an optional value.
FindFirst(s, hint) ==
    IF \E i \in 1..Len(s) : Includes(s[i].id, hint)
    THEN Some(s[CHOOSE i \in 1..Len(s) :
                   /\ Includes(s[i].id, hint)
                   /\ \A j \in 1..(i - 1) : ~Includes(s[j].id, hint)])
    ELSE None

\* A findBestTemplate that never looks at the preferred type.
findBestIgnoresHint(ts, data, preferredType) ==
    LET suitableTemplates == findSuitableTemplates(ts, data)
    IN IF Len(suitableTemplates) = 0 THEN None ELSE Some(suitableTemplates[1])

\* A findBestTemplate that falls back to a default template when nothing suits.
findBestWithDefault(ts, data, preferredType) ==
    LET suitableTemplates == findSuitableTemplates(ts, data)
    IN IF Len(suitableTemplates) = 0
       THEN Some([id |-> MarketOverviewId, name |-> "Market Overview",
                  cls |-> "MarketOverviewTemplate"])
       ELSE Some(suitableTemplates[1])

findBestTemplate(ts, data, preferredType) ==
    LET suitableTemplates == findSuitableTemplates(ts, data)
        \* if (preferredType): given and not the empty string
        preferred == IF preferredType # None /\ preferredType[1] # <<>>
                     THEN FindFirst(suitableTemplates, preferredType[1])
                     ELSE None
    IN IF Len(suitableTemplates) = 0 THEN None
       ELSE IF preferred # None THEN preferred
       ELSE Some(suitableTemplates[1])

\* The record of a registry call: what it was given, what the payload holds
\* when it returns, and what it returned.
NoCall ==
    [op |-> "none", data |-> EmptyPayload, dataAfter |-> EmptyPayload, hint |-> None,
     id |-> <<>>, templateId |-> None, result |-> <<>>]

InitRegistry ==
    /\ templates = <<>>
    /\ regLog = <<>>
    /\ lastCall = NoCall

Register(template) ==
    /\ Len(regLog) < MaxRegs
    /\ templates' = register(templates, template)
    /\ regLog' = Append(regLog, template)
    /\ lastCall' = NoCall
    /\ UNCHANGED <<content, pub, fileExists, calls, campaign, conv, files, browsers, render, saves>>

Get(id) ==
    /\ lastCall' = [NoCall EXCEPT !.op = "get", !.id = id, !.result = get(templates, id)]
    /\ UNCHANGED <<templates, regLog, content, pub, fileExists, calls, campaign, conv, files, browsers, render, saves>>

\* A findSuitableTemplates that filters the registry in place.
FindSuitableDrainsRegistry(data) ==
    /\ lastCall' = [NoCall EXCEPT !.op = "findSuitable", !.data = data, !.dataAfter = data,
                                  !.result = findSuitableTemplates(templates, data)]
    /\ templates' = findSuitableTemplates(templates, data)
    /\ UNCHANGED <<regLog, content, pub, fileExists, calls, campaign, conv, files, browsers, render, saves>>

\* The probes only read the payload, so it comes back as it went in.
FindSuitable(data) ==
    /\ lastCall' = [NoCall EXCEPT !.op = "findSuitable", !.data = data, !.dataAfter = data,
                                  !.result = findSuitableTemplates(templates, data)]
    /\ UNCHANGED <<templates, regLog, content, pub, fileExists, calls, campaign, conv, files, browsers, render, saves>>

FindBest(data, hint) ==
    /\ lastCall' = [NoCall EXCEPT !.op = "findBest", !.data = data, !.dataAfter = data,
                                  !.hint = hint,
                                  !.result = findBestTemplate(templates, data, hint)]
    /\ UNCHANGED <<templates, regLog, content, pub, fileExists, calls, campaign, conv, files, browsers, render, saves>>

NextRegistry ==
    \/ \E t \in Descriptors : Register(t)
    \/ \E id \in Ids : Get(id)
    \/ \E d \in Payloads : FindSuitable(d)
    \/ \E d \in Payloads, h \in Hints : FindBest(d, h)

(***************************************************************************)
(* The generateVisualization capability (templates/capabilities.ts, whose  *)
(* code is in templates/market-overview.ts from line 548 on).  The payload *)
(* is the one the capability holds after parsing its data argument.        *)
(***************************************************************************)

PieChartId == <<"p","i","e","-","c","h","a","r","t">>

\* templateId: not given, the empty string, a built-in id or an id nobody registers.
TemplateIds ==
    { None, Some(<<>>), Some(PriceChartId), Some(TvlChartId), Some(MarketOverviewId),
      Some(PieChartId) }

TemplateNotFoundError(templateId) ==
    "Template with ID \"" \o StrOf(templateId) \o "\" not found"
UnsuitableTemplateError(templateId) ==
    "Template \"" \o StrOf(templateId) \o "\" is not suitable for the provided data"
NoSuitableTemplateError == "No suitable template found for the provided data"

Thrown(message) == [kind |-> "error", message |-> message]
\* template.generate(parsedData, options) is called on this template.
Generate(template) == [kind |-> "generate", template |-> template]

\* A generateVisualization that trusts an explicit id without probing the data.
generateVisualizationSkipsProbe(ts, data, templateId) ==
    IF templateId # None /\ templateId[1] # <<>>
    THEN LET template == get(ts, templateId[1])
         IN IF template = None THEN Thrown(TemplateNotFoundError(templateId[1]))
            ELSE Generate(template[1])
    ELSE LET template == findBestTemplate(ts, data, None)
         IN IF template = None THEN Thrown(NoSuitableTemplateError)
            ELSE Generate(template[1])

\* The template resolution of generateVisualization.run, up to the call of
\* the generator.  if (templateId): given and not the empty string.
generateVisualization(ts, data, templateId) ==
    IF templateId # None /\ templateId[1] # <<>>
    THEN LET template == get(ts, templateId[1])
         IN IF template = None THEN Thrown(TemplateNotFoundError(templateId[1]))
            ELSE IF ~isSuitableFor(template[1], data)
            THEN Thrown(UnsuitableTemplateError(templateId[1]))
            ELSE Generate(template[1])
    ELSE LET template == findBestTemplate(ts, data, None)
         IN IF template = None THEN Thrown(NoSuitableTemplateError)
            ELSE Generate(template[1])

GenerateVisualization(data, templateId) ==
    /\ lastCall' = [NoCall EXCEPT !.op = "generateVisualization", !.data = data,
                                  !.dataAfter = data, !.templateId = templateId,
                                  !.result = generateVisualization(templates, data, templateId)]
    /\ UNCHANGED <<templates, regLog, content, pub, fileExists, calls, campaign, conv, files, browsers, render, saves>>

\* The registry as the capability sees it: registrations and capability calls.
NextVisualize ==
    \/ \E t \in Descriptors : Register(t)
    \/ \E d \in Payloads, id \in TemplateIds : GenerateVisualization(d, id)

(***************************************************************************)
(* Content formatter                                                       *)
(***************************************************************************)

UpperCase == <<"A","B","C","D","E","F","G","H","I","J","K","L","M",
               "N","O","P","Q","R","S","T","U","V","W","X","Y","Z">>
LowerCase == <<"a","b","c","d","e","f","g","h","i","j","k","l","m",
               "n","o","p","q","r","s","t","u","v","w","x","y","z">>

\* String.prototype.toLowerCase
toLowerCase(s) ==
    [i \in 1..Len(s) |->
        IF \E k \in 1..26 : UpperCase[k] = s[i]
        THEN LowerCase[CHOOSE k \in 1..26 : UpperCase[k] = s[i]]
        ELSE s[i]]

IsSpace(c) == c \in {" ", "\t", "\n"}

\* s.replace(/\s+/g, '')
StripWhitespace(s) == LET NotSpace(c) == ~IsSpace(c) IN SelectSeq(s, NotSpace)

\* An optional string counts as true when it is there and not empty.
TruthyStr(o) == o # None /\ o[1] # <<>>

Digits == <<"0","1","2","3","4","5","6","7","8","9">>

RECURSIVE NatStr(_)
\* The decimal digits of a natural number.
NatStr(n) == IF n < 10 THEN Digits[n + 1] ELSE NatStr(n \div 10) \o Digits[(n % 10) + 1]

RECURSIVE Pow10(_)
Pow10(k) == IF k = 0 THEN 1 ELSE 10 * Pow10(k - 1)

RECURSIVE PadLeft(_, _)
PadLeft(str, width) == IF Len(str) >= width THEN str ELSE PadLeft("0" \o str, width)

\* Number.prototype.toFixed(places) of the number scaled / 10^places, for a
\* number that has no more than `places` decimals.
ToFixed(scaled, places) ==
    LET mag == IF scaled < 0 THEN 0 - scaled ELSE scaled
    IN (IF scaled < 0 THEN "-" ELSE "")
       \o NatStr(mag \div Pow10(places)) \o "." \o PadLeft(NatStr(mag % Pow10(places)), places)

\* (num / unit).toFixed(2), for a whole number num and a unit of at least
\* 1000: the quotient rounded to hundredths.
DivToFixed2(num, unit) ==
    LET step == unit \div 100
        rest == num % unit
        up == IF 2 * (rest % step) >= step THEN 1 ELSE 0
    IN ToFixed((num \div unit) * 100 + rest \div step + up, 2)

\* price.toFixed(6), for a price of whole dollars and millionths.
PriceToFixed6(price) == NatStr(price.whole) \o "." \o PadLeft(NatStr(price.micros), 6)

formatNumber(num) ==
    IF num >= Pow10(9) THEN DivToFixed2(num, Pow10(9)) \o "B"
    ELSE IF num >= Pow10(6) THEN DivToFixed2(num, Pow10(6)) \o "M"
    ELSE IF num >= Pow10(3) THEN DivToFixed2(num, Pow10(3)) \o "K"
    ELSE ToFixed(num * 100, 2)

BaseTags == <<<<"D","e","F","i">>, <<"c","r","y","p","t","o">>, <<"b","l","o","c","k","c","h","a","i","n">>,
              <<"v","i","s","u","a","l","i","z","a","t","i","o","n">>, <<"d","a","t","a">>>>

\* The cap of extractDefaultTags: slice(0, 10).
MaxTags == 10

RECURSIVE Dedupe(_, _)
\* [...new Set(tags)]: the first occurrence of each value, in order.
Dedupe(s, seen) ==
    IF s = <<>> THEN <<>>
    ELSE IF Head(s) \in seen THEN Dedupe(Tail(s), seen)
    ELSE <<Head(s)>> \o Dedupe(Tail(s), seen \cup {Head(s)})

\* tags.slice(0, n)
Slice0(s, n) == SubSeq(s, 1, IF Len(s) < n THEN Len(s) ELSE n)

\* The tags pushed after the base tags, before duplicates are removed.
PushedTags(data) ==
    LET hasToken == data.token # None
        chainOpt == IF TruthyStr(data.chain) THEN data.chain
                    ELSE IF hasToken THEN data.token[1].chain ELSE None
        chain == chainOpt[1]
        lower == toLowerCase(chain)
    IN (IF hasToken /\ TruthyStr(data.token[1].symbol) THEN <<data.token[1].symbol[1]>> ELSE <<>>)
       \o (IF hasToken /\ TruthyStr(data.token[1].name)
           THEN <<StripWhitespace(data.token[1].name[1])>> ELSE <<>>)
       \o (IF TruthyStr(chainOpt)
           THEN <<chain>>
                \o (IF lower = <<"e","t","h","e","r","e","u","m">> THEN <<<<"E","T","H">>>>
                    ELSE IF lower = <<"b","i","n","a","n","c","e","-","s","m","a","r","t","-","c","h","a","i","n">> \/ lower = <<"b","s","c">>
                    THEN <<<<"B","S","C">>, <<"B","N","B">>>>
                    ELSE IF lower = <<"s","o","l","a","n","a">> THEN <<<<"S","O","L">>>>
                    ELSE <<>>)
           ELSE <<>>)
       \o (IF TruthyStr(data.category) THEN <<StripWhitespace(data.category[1])>> ELSE <<>>)
       \o (IF data.topTokens THEN <<<<"T","o","k","e","n","A","n","a","l","y","s","i","s">>>> ELSE <<>>)
       \o (IF data.tvl \/ data.historicalTvl
           THEN <<<<"T","V","L">>, <<"T","o","t","a","l","V","a","l","u","e","L","o","c","k","e","d">>>> ELSE <<>>)

\* An extractDefaultTags that keeps duplicates.
extractDefaultTagsNoDedupe(data) == Slice0(BaseTags \o PushedTags(data), MaxTags)

extractDefaultTags(data) == Slice0(Dedupe(BaseTags \o PushedTags(data), {}), MaxTags)

\* `${priceChange >= 0 ? '+' : ''}${priceChange.toFixed(2)}`
SignedChange(change) == (IF change >= 0 THEN "+" ELSE "") \o ToFixed(change, 2)

\* Pictographs are written by name in brackets.
generateSocialContent(data, platform, contentType) ==
    LET tags == extractDefaultTags(data)
        m == data.market
        tokenSymbol == IF TruthyStr(data.token[1].symbol)
                       THEN StrOf(data.token[1].symbol[1]) ELSE "Token"
        price == PriceToFixed6(m.priceUsd)
        change == SignedChange(m.priceChange)
        single(message) == [message |-> message, tags |-> tags, thread |-> None]
    IN
    IF data.token # None THEN
        IF contentType = "short" THEN
            single(tokenSymbol \o " is trading at $" \o price \o " (" \o change
                   \o "% 24h) with $" \o formatNumber(m.volume24h) \o " 24h volume.")
        ELSE IF contentType = "detailed" THEN
            single(tokenSymbol \o " Market Update [chart]\n\nCurrent Price: $" \o price
                   \o "\n24h Change: " \o change \o "%\n24h Volume: $"
                   \o formatNumber(m.volume24h) \o "\n\nLiquidity: $"
                   \o formatNumber(m.liquidityUsd) \o "\nMarket Cap: $"
                   \o formatNumber(m.marketCap) \o "\n\nTrades in last 24h: "
                   \o formatNumber(m.transactions24h) \o " (" \o NatStr(m.buys)
                   \o " buys, " \o NatStr(m.sells) \o " sells)")
        ELSE
            [message |-> tokenSymbol \o " is currently trading at $" \o price
                         \o " with a 24h change of " \o change
                         \o "%. Let's dive into the key metrics [thread][down]",
             tags |-> tags,
             thread |-> Some(<<
                 tokenSymbol \o " is trading at $" \o price \o " (" \o change \o "% 24h)",
                 "Trading volume in the last 24 hours: $" \o formatNumber(m.volume24h),
                 "Market cap: $" \o formatNumber(m.marketCap) \o " with $"
                     \o formatNumber(m.liquidityUsd) \o " in liquidity",
                 NatStr(m.transactions24h) \o " trades in last 24h (" \o NatStr(m.buys)
                     \o " buys, " \o NatStr(m.sells) \o " sells)",
                 tokenSymbol \o " is available on " \o NatStr(m.exchanges)
                     \o " exchanges across " \o NatStr(m.chains) \o " chains." >>)]
    ELSE IF data.topProtocols \/ data.chainsTvl THEN
        IF contentType = "short" THEN
            single("Check out our latest DeFi market visualization with key insights on tokens, protocols, and trends.")
        ELSE IF contentType = "detailed" THEN
            single("DeFi Market Insights [chart]\n\nOur latest data visualization provides an in-depth look at the current state of decentralized finance.\n\nThe visualization highlights key metrics, trending tokens, and protocol performance to help you make informed decisions.\n\nSwipe to see the full analysis and discover the latest trends in the DeFi ecosystem.")
        ELSE
            [message |-> "We've just published our latest DeFi market visualization! Let's explore the key insights [thread][down]",
             tags |-> tags,
             thread |-> Some(<<
                 "Our latest DeFi visualization provides a comprehensive overview of the market",
                 "Key metrics covered include token prices, trading volume, TVL, and distribution across protocols",
                 "The data reveals important trends in user activity and capital flows in the DeFi ecosystem",
                 "This analysis can help you make better-informed decisions about your DeFi investments and activities",
                 "Follow us for regular updates and more detailed breakdowns of the DeFi landscape!" >>)]
    ELSE
        IF contentType = "short" THEN
            single("Check out our latest DeFi data visualization!")
        ELSE IF contentType = "detailed" THEN
            single("Our latest DeFi data visualization provides insights on market trends, token performance, and protocol growth. Swipe to explore the data and discover the latest developments in the decentralized finance ecosystem.")
        ELSE
            [message |-> "We've published a new DeFi visualization! Let's explore what the data shows [thread][down]",
             tags |-> tags,
             thread |-> Some(<<
                 "Our latest DeFi data visualization is now available!",
                 "The visualization covers key metrics across the decentralized finance ecosystem",
                 "This data helps highlight emerging trends and opportunities in the market",
                 "Follow us for more insights and regular updates on the DeFi landscape!" >>)]

Platforms == {"twitter", "linkedin", "telegram"}
ContentTypes == {"short", "detailed", "thread"}

\* data.token, when there is one.
Tokens ==
    { None,
      Some([symbol |-> Some(<<"E","T","H">>), name |-> Some(<<"E"," ","T"," ","H">>), chain |-> None]),
      Some([symbol |-> Some(<<"W","B","N","B">>), name |-> Some(<<"W","r","a","p","p","e","d"," ","B","N","B">>), chain |-> Some(<<"b","s","c">>)]),
      Some([symbol |-> Some(<<"D","e","F","i">>), name |-> None, chain |-> Some(<<"E","t","h","e","r","e","u","m">>)]),
      Some([symbol |-> Some(<<>>), name |-> None, chain |-> None]) }

Chains == { None, Some(<<"S","o","l","a","n","a">>), Some(<<"B","S","C">>), Some(<<"b","i","n","a","n","c","e","-","s","m","a","r","t","-","c","h","a","i","n">>) }

Categories == { None, Some(<<"L","i","q","u","i","d"," ","S","t","a","k","i","n","g">>), Some(<<"T","V","L">>) }

\* The numbers of a payload: the price in dollars and millionths, the change
\* in hundredths of a percent, the rest whole; 0 where the payload has none.
Markets ==
    { [priceUsd |-> [whole |-> 0, micros |-> 0], priceChange |-> 0, volume24h |-> 0, liquidityUsd |-> 0,
       marketCap |-> 0, transactions24h |-> 0, buys |-> 0, sells |-> 0,
       exchanges |-> 0, chains |-> 0],
      [priceUsd |-> [whole |-> 2500, micros |-> 123456], priceChange |-> 0 - 150, volume24h |-> 1200000000,
       liquidityUsd |-> 45300000, marketCap |-> 987600, transactions24h |-> 1520,
       buys |-> 800, sells |-> 720, exchanges |-> 3, chains |-> 2] }

\* The payloads the content formatter is called with.
ContentData ==
    [token : Tokens, chain : Chains, category : Categories, topTokens : BOOLEAN,
     tvl : BOOLEAN, historicalTvl : BOOLEAN, topProtocols : BOOLEAN,
     chainsTvl : BOOLEAN, market : Markets]

NoContent == [op |-> "none"]

InitContent == content = NoContent

\* The content formatter is about to be called with some arguments.
InitContentCall ==
    \E d \in ContentData, p \in Platforms, t \in ContentTypes :
        content = [op |-> "call", data |-> d, platform |-> p, contentType |-> t]

\* The generateSocialContent capability runs and returns.
GenerateSocialContent ==
    /\ content.op = "call"
    /\ content' = [op |-> "generateSocialContent", data |-> content.data,
                   platform |-> content.platform, contentType |-> content.contentType,
                   result |-> generateSocialContent(content.data, content.platform,
                                                     content.contentType)]
    /\ UNCHANGED <<templates, regLog, lastCall, pub, fileExists, calls, campaign, conv, files, browsers, render, saves>>

NextContent == GenerateSocialContent

(***************************************************************************)
(* Distribution orchestrator: distributeToSocial                           *)
(***************************************************************************)

\* Bound: the number of entries of the platforms argument.
MaxPlatforms == 2

\* formatMessageForPlatform: a twitter message longer than this is cut ...
TwitterMessageMax == 250
\* ... to this many characters, followed by "...".
TwitterMessageKeep == 247
\* formatTagsForPlatforms: the hashtags kept for twitter and for linkedin.
TwitterTagCap == 5
LinkedinTagCap == 8
\* characterLimits of getSupportedSocialPlatforms.
TwitterPostLimit == 280
LinkedinPostLimit == 3000
TelegramMessageLimit == 4096

CharLimit(platform) ==
    CASE platform = "twitter" -> TwitterPostLimit
      [] platform = "linkedin" -> LinkedinPostLimit
      [] platform = "telegram" -> TelegramMessageLimit

\* The path saveVisualization returned for the image.
ImagePath == "output/temp-visualization.png"

Ellipsis == <<".", ".", ".">>

RECURSIVE JoinWithSpace(_)
\* Array.prototype.join(' ')
JoinWithSpace(ss) ==
    IF ss = <<>> THEN <<>>
    ELSE IF Len(ss) = 1 THEN ss[1]
    ELSE ss[1] \o <<" ">> \o JoinWithSpace(Tail(ss))

\* tag => `#${tag.replace(/\s+/g, '')}`
Hashtag(tag) == <<"#">> \o StripWhitespace(tag)

HashtagsOf(tags) == JoinWithSpace([i \in 1..Len(tags) |-> Hashtag(tags[i])])

\* A formatTagsForPlatforms that gives every platform all the tags.
formatTagsUncapped(tags, platforms) == [p \in Range(platforms) |-> HashtagsOf(tags)]

\* The formatted hashtags of every platform of the list.
formatTagsForPlatforms(tags, platforms) ==
    [p \in Range(platforms) |->
        CASE p = "twitter" -> HashtagsOf(Slice0(tags, TwitterTagCap))
          [] p = "linkedin" -> HashtagsOf(Slice0(tags, LinkedinTagCap))
          [] p = "telegram" -> HashtagsOf(tags)]

formatMessageForPlatform(message, platform) ==
    IF platform = "twitter" /\ Len(message) > TwitterMessageMax
    THEN SubSeq(message, 1, TwitterMessageKeep) \o Ellipsis
    ELSE message

\* `${platformMessage}\n\n${formattedTags[platform] || ''}`
FullMessage(message, platform, formattedTags) ==
    formatMessageForPlatform(message, platform) \o <<"\n", "\n">> \o formattedTags[platform]

IntegrationId(platform) ==
    CASE platform = "twitter" -> "twitter-v2"
      [] platform = "linkedin" -> "linkedin-v2"
      [] platform = "telegram" -> "telegram"

Endpoint(platform) ==
    CASE platform = "twitter" -> "/2/tweets"
      [] platform = "linkedin" -> "/v2/ugcPosts"
      [] platform = "telegram" -> "/sendPhoto"

Failure(error) == [success |-> FALSE, postId |-> None, url |-> None, error |-> Some(error)]

\* The entry recorded after the integration answered: postId is
\* postResponse.data?.id (message_id for telegram), the url is built from it.
Success(platform, postId) ==
    [success |-> TRUE, postId |-> postId,
     url |-> IF postId = None \/ platform = "telegram" THEN None
             ELSE IF platform = "twitter"
             THEN Some("https://twitter.com/user/status/" \o postId[1])
             ELSE Some("https://www.linkedin.com/feed/update/" \o postId[1]),
     error |-> None]

ImageNotFound == Failure("Image file not found: " \o ImagePath)
NoWorkspace == Failure("No workspace available for posting to social media")
FailedToPost(platform, message) == Failure("Failed to post to " \o platform \o ": " \o message)

\* results[platform] = entry
Put(results, platform, entry) ==
    [q \in (DOMAIN results) \cup {platform} |-> IF q = platform THEN entry ELSE results[q]]

EmptyMap == [q \in {} |-> None]

\* What callIntegration does: throws, or answers with or without an id.
Outcomes ==
    { [kind |-> "throw", message |-> "Request failed with status code 429", id |-> None],
      [kind |-> "ok", message |-> "", id |-> Some("1001")],
      [kind |-> "ok", message |-> "", id |-> None] }

RECURSIVE SeqsUpTo(_, _)
\* The sequences over S of length at most n.
SeqsUpTo(S, n) ==
    IF n = 0 THEN {<<>>}
    ELSE LET shorter == SeqsUpTo(S, n - 1)
         IN shorter \cup {Append(s, x) : s \in shorter, x \in S}

PlatformLists == SeqsUpTo(Platforms, MaxPlatforms)

\* A message of n characters.
MessageOfLength(n) == [i \in 1..n |-> "a"]

Messages == {MessageOfLength(n) : n \in {12, TwitterMessageMax, TwitterMessageMax + 1}}

TagLists ==
    { <<>>,
      BaseTags,
      BaseTags \o <<<<"E"," ","T"," ","H">>, <<"T","V","L">>, <<"T","o","t","a","l"," ","V","a","l","u","e"," ","L","o","c","k","e","d">>, <<"S","O","L">>,
                  <<"A","a","v","e">>, <<"L","i","d","o">>>> }

Idle ==
    [pc |-> "idle", platforms |-> <<>>, message |-> <<>>, tags |-> <<>>,
     workspace |-> FALSE, formattedTags |-> EmptyMap, idx |-> 0, results |-> EmptyMap]

InitPublish ==
    /\ pub = Idle
    /\ fileExists = FALSE
    /\ calls = <<>>

\* The loop goes on to the next platform, or the function returns.
Advance(p) ==
    [p EXCEPT !.idx = p.idx + 1,
              !.pc = IF p.idx >= Len(p.platforms) THEN "done" ELSE "loop"]

\* distributeToSocial is called: the tags are formatted, the loop starts.
DistributeToSocial(platforms, message, tags, workspace) ==
    /\ pub.pc = "idle"
    /\ pub' = [pc |-> IF platforms = <<>> THEN "done" ELSE "loop",
               platforms |-> platforms, message |-> message, tags |-> tags,
               workspace |-> workspace,
               formattedTags |-> formatTagsForPlatforms(tags, platforms),
               idx |-> 1, results |-> EmptyMap]
    /\ UNCHANGED <<templates, regLog, lastCall, content, fileExists, calls, campaign, conv, files, browsers, render, saves>>

\* A loop body that posts without checking that the image exists.
ProcessPlatformNoFileCheck(readable) ==
    /\ pub.pc = "loop"
    /\ LET platform == pub.platforms[pub.idx]
           fullMessage == FullMessage(pub.message, platform, pub.formattedTags)
       IN /\ pub' = [pub EXCEPT !.pc = "calling"]
          /\ calls' = Append(calls, [platform |-> platform,
                                     integrationId |-> IntegrationId(platform),
                                     endpoint |-> Endpoint(platform),
                                     text |-> fullMessage, outcome |-> "pending"])
    /\ UNCHANGED <<templates, regLog, lastCall, content, fileExists, campaign, conv, files, browsers, render, saves>>

\* A loop body that records nothing for a platform it cannot post to.
ProcessPlatformSkipsSilently(readable) ==
    /\ pub.pc = "loop"
    /\ LET platform == pub.platforms[pub.idx]
           fullMessage == FullMessage(pub.message, platform, pub.formattedTags)
       IN IF ~fileExists \/ ~pub.workspace \/ ~readable THEN
              /\ pub' = Advance(pub)
              /\ calls' = calls
          ELSE
              /\ pub' = [pub EXCEPT !.pc = "calling"]
              /\ calls' = Append(calls, [platform |-> platform,
                                         integrationId |-> IntegrationId(platform),
                                         endpoint |-> Endpoint(platform),
                                         text |-> fullMessage, outcome |-> "pending"])
    /\ UNCHANGED <<templates, regLog, lastCall, content, fileExists, campaign, conv, files, browsers, render, saves>>

\* One pass of the loop body up to the await: the existence check, the
\* message, the read of the image, and the integration call being issued.
\* readable: whether readFileSync returns (it throws otherwise).
ProcessPlatform(readable) ==
    /\ pub.pc = "loop"
    /\ LET platform == pub.platforms[pub.idx]
           fullMessage == FullMessage(pub.message, platform, pub.formattedTags)
       IN IF ~fileExists THEN
              /\ pub' = Advance([pub EXCEPT !.results = Put(@, platform, ImageNotFound)])
              /\ calls' = calls
          ELSE IF ~pub.workspace THEN
              /\ pub' = Advance([pub EXCEPT !.results = Put(@, platform, NoWorkspace)])
              /\ calls' = calls
          ELSE IF ~readable THEN
              /\ pub' = Advance([pub EXCEPT !.results =
                            Put(@, platform, FailedToPost(platform, "EACCES: permission denied"))])
              /\ calls' = calls
          ELSE
              /\ pub' = [pub EXCEPT !.pc = "calling"]
              /\ calls' = Append(calls, [platform |-> platform,
                                         integrationId |-> IntegrationId(platform),
                                         endpoint |-> Endpoint(platform),
                                         text |-> fullMessage, outcome |-> "pending"])
    /\ UNCHANGED <<templates, regLog, lastCall, content, fileExists, campaign, conv, files, browsers, render, saves>>

\* A loop body with nothing around the integration call: its exception
\* leaves distributeToSocial.
IntegrationRespondsUncaught(outcome) ==
    /\ pub.pc = "calling"
    /\ LET platform == pub.platforms[pub.idx]
       IN pub' = IF outcome.kind = "throw"
                 THEN [pub EXCEPT !.pc = "threw"]
                 ELSE Advance([pub EXCEPT !.results =
                                   Put(@, platform, Success(platform, outcome.id))])
    /\ calls' = [calls EXCEPT ![Len(calls)].outcome = outcome.kind]
    /\ UNCHANGED <<templates, regLog, lastCall, content, fileExists, campaign, conv, files, browsers, render, saves>>

\* A loop that posts again to a platform whose integration call threw.
IntegrationRespondsRetries(outcome) ==
    /\ pub.pc = "calling"
    /\ LET platform == pub.platforms[pub.idx]
       IN pub' = IF outcome.kind = "throw"
                 THEN [pub EXCEPT !.pc = "loop"]
                 ELSE Advance([pub EXCEPT !.results =
                                   Put(@, platform, Success(platform, outcome.id))])
    /\ calls' = [calls EXCEPT ![Len(calls)].outcome = outcome.kind]
    /\ UNCHANGED <<templates, regLog, lastCall, content, fileExists, campaign, conv, files, browsers, render, saves>>

\* The awaited callIntegration settles: the answer is recorded, or the
\* exception is caught and recorded, and the loop goes on.
IntegrationResponds(outcome) ==
    /\ pub.pc = "calling"
    /\ LET platform == pub.platforms[pub.idx]
       IN pub' = Advance([pub EXCEPT !.results =
                     Put(@, platform,
                         IF outcome.kind = "throw"
                         THEN FailedToPost(platform, outcome.message)
                         ELSE Success(platform, outcome.id))])
    /\ calls' = [calls EXCEPT ![Len(calls)].outcome = outcome.kind]
    /\ UNCHANGED <<templates, regLog, lastCall, content, fileExists, campaign, conv, files, browsers, render, saves>>

\* The image file is removed or written by something else.
FileChanges ==
    /\ fileExists' = ~fileExists
    /\ UNCHANGED <<templates, regLog, lastCall, content, pub, calls, campaign, conv, files, browsers, render, saves>>

NextPublish ==
    \/ \E ps \in PlatformLists, m \in Messages, ts \in TagLists, w \in BOOLEAN :
           DistributeToSocial(ps, m, ts, w)
    \/ \E readable \in BOOLEAN : ProcessPlatform(readable)
    \/ \E o \in Outcomes : IntegrationResponds(o)
    \/ FileChanges

(***************************************************************************)
(* Campaign assembly: the createSocialCampaign capability                  *)
(* (distribution/capabilities.ts, lines 92-304) and generatePostSchedule   *)
(* (the same file, lines 775-795).  The capability runs in the agent       *)
(* process, where loading templates/capabilities has registered the three  *)
(* built-in templates.                                                     *)
(***************************************************************************)

\* Bound: the largest postCount a campaign is asked for.
MaxPosts == 3

\* The hours between two slots of a schedule: (i * 4).
SlotSpacingHours == 4
\* Math.floor(Math.random() * 2): the jitter of a slot is a whole number of
\* hours below this.
JitterBound == 2

\* const platforms = ['twitter', 'linkedin', 'telegram'] of generatePostSchedule
SchedulePlatforms == <<"twitter", "linkedin", "telegram">>

\* The jitter drawn for each slot of a schedule of n slots.
Jitters(n) == [1..n -> 0..(JitterBound - 1)]

\* A generatePostSchedule whose loop runs once more: i <= postCount.
generatePostScheduleOneMore(postCount, jitter) ==
    [k \in 1..(postCount + 1) |->
        [platform |-> SchedulePlatforms[((k - 1) % Len(SchedulePlatforms)) + 1],
         scheduledTime |-> (k - 1) * SlotSpacingHours
                           + (IF k <= postCount THEN jitter[k] ELSE 0)]]

\* A generatePostSchedule whose jitter is as wide as two slots.
generatePostScheduleWideJitter(postCount, jitter) ==
    [k \in 1..postCount |->
        [platform |-> SchedulePlatforms[((k - 1) % Len(SchedulePlatforms)) + 1],
         scheduledTime |-> (k - 1) * SlotSpacingHours
                           + jitter[k] * 2 * SlotSpacingHours]]

\* generatePostSchedule(postCount), with the random draws as an argument.
\* Slot k is the loop's i = k - 1; scheduledTime is in whole hours after the
\* `now` of the call, the order in which the ISO strings compare.
generatePostSchedule(postCount, jitter) ==
    [k \in 1..postCount |->
        [platform |-> SchedulePlatforms[((k - 1) % Len(SchedulePlatforms)) + 1],
         scheduledTime |-> (k - 1) * SlotSpacingHours + jitter[k]]]

\* The built-in templates in the order templates/capabilities registers them.
BuiltInTemplates ==
    << [id |-> PriceChartId, name |-> "Token Price Chart", cls |-> "PriceChartTemplate"],
       [id |-> MarketOverviewId, name |-> "Market Overview", cls |-> "MarketOverviewTemplate"],
       [id |-> TvlChartId, name |-> "TVL Chart", cls |-> "TvlChartTemplate"] >>

\* The topics campaigns are asked for.
Topics ==
    { <<"E","t","h","e","r","e","u","m"," ","T","V","L"," ","t","r","e","n","d","s">>,
      <<"T","o","p"," ","D","e","F","i"," ","t","o","k","e","n","s">>,
      <<"E","T","H"," ","p","r","i","c","e">>,
      <<"D","e","F","i"," ","m","a","r","k","e","t">> }

\* The platform lists campaigns are asked for.
CampaignPlatformLists ==
    { <<"twitter">>, <<"linkedin", "telegram">>, <<"telegram", "twitter", "twitter">> }

TvlHistoryType == <<"t","v","l","-","h","i","s","t","o","r","y">>
PriceTrendType == <<"p","r","i","c","e","-","t","r","e","n","d">>

\* The visualizationTypes campaigns are asked for: registered ids and types
\* that no template has as its id.
VisualizationTypeLists ==
    { <<>>,
      <<TvlChartId>>,
      <<PriceChartId, TvlChartId>>,
      <<MarketOverviewId, PriceTrendType>>,
      <<TvlHistoryType, MarketOverviewId>>,
      <<PieChartId, TvlChartId, MarketOverviewId>> }

\* topic.toLowerCase().includes(...), in the order of the if chain.
PrimaryType(topic) ==
    LET lower == toLowerCase(topic)
    IN IF Includes(lower, <<"t","o","k","e","n">>) \/ Includes(lower, <<"p","r","i","c","e">>)
       THEN "tokens"
       ELSE IF Includes(lower, <<"p","r","o","t","o","c","o","l">>) \/ Includes(lower, <<"t","v","l">>)
       THEN "protocols"
       ELSE "market"

\* topic.match(/([A-Z]{2,5})/): two capital letters in a row.
HasSymbol(topic) ==
    \E i \in 1..(Len(topic) - 1) : topic[i] \in Range(UpperCase) /\ topic[i + 1] \in Range(UpperCase)

\* What the data fetch can leave in campaignData: each top list is not
\* fetched, empty or not empty, and a focus entity is found or not.
FetchedData(topic) ==
    LET lists == {"empty", "nonempty"}
        none == [tokens |-> "undefined", protocols |-> "undefined",
                 focusToken |-> FALSE, focusProtocol |-> FALSE]
    IN CASE PrimaryType(topic) = "tokens" ->
                { [none EXCEPT !.tokens = t, !.focusToken = f] :
                      t \in lists, f \in (IF HasSymbol(topic) THEN BOOLEAN ELSE {FALSE}) }
         [] PrimaryType(topic) = "protocols" ->
                { [none EXCEPT !.protocols = p, !.focusProtocol = f] :
                      p \in lists, f \in BOOLEAN }
         [] OTHER ->
                { [none EXCEPT !.tokens = t, !.protocols = p] : t \in lists, p \in lists }

NoMarket ==
    [priceUsd |-> [whole |-> 0, micros |-> 0], priceChange |-> 0, volume24h |-> 0,
     liquidityUsd |-> 0, marketCap |-> 0, transactions24h |-> 0, buys |-> 0, sells |-> 0,
     exchanges |-> 0, chains |-> 0]

NoData ==
    [name |-> None, token |-> None, chain |-> None, category |-> None, topTokens |-> FALSE, tvl |-> FALSE,
     historicalTvl |-> FALSE, topProtocols |-> FALSE, chainsTvl |-> FALSE, market |-> NoMarket]

\* processTokenData of the focus token and of the first top token.
FocusTokenData ==
    [NoData EXCEPT
        !.token = Some([symbol |-> Some(<<"E","T","H">>),
                        name |-> Some(<<"E","t","h","e","r","e","u","m">>), chain |-> None]),
        !.market = [NoMarket EXCEPT !.priceUsd = [whole |-> 2500, micros |-> 123456],
                                    !.priceChange = 0 - 150, !.volume24h = 1200000000]]
TopTokenData ==
    [NoData EXCEPT
        !.token = Some([symbol |-> Some(<<"W","B","N","B">>),
                        name |-> Some(<<"W","r","a","p","p","e","d"," ","B","N","B">>),
                        chain |-> None]),
        !.market = [NoMarket EXCEPT !.priceUsd = [whole |-> 600, micros |-> 0],
                                    !.priceChange = 25, !.volume24h = 45300000]]

\* The focus protocol and the first top protocol.
FocusProtocolData ==
    [NoData EXCEPT !.name = Some(<<"L","i","d","o">>),
                   !.chain = Some(<<"E","t","h","e","r","e","u","m">>),
                   !.category = Some(<<"L","i","q","u","i","d"," ","S","t","a","k","i","n","g">>),
                   !.tvl = TRUE, !.historicalTvl = TRUE]
TopProtocolData ==
    [NoData EXCEPT !.name = Some(<<"R","a","y","d","i","u","m">>),
                   !.chain = Some(<<"S","o","l","a","n","a">>),
                   !.category = Some(<<"D","e","x","e","s">>), !.tvl = TRUE]

\* The object literal built for the market overview: its arrays count as
\* true even when they are empty.
MarketOverviewData ==
    [NoData EXCEPT !.topTokens = TRUE, !.topProtocols = TRUE, !.chainsTvl = TRUE]

\* The template a visualization type resolves to (lines 179-192): the one
\* registered under that id, or else a built-in picked by the primary type.
ResolveTemplate(ts, primaryType, vizType) ==
    IF get(ts, vizType) # None THEN get(ts, vizType)
    ELSE IF primaryType = "tokens" /\ Includes(vizType, <<"p","r","i","c","e">>)
    THEN get(ts, PriceChartId)
    ELSE IF primaryType = "protocols" /\ Includes(vizType, <<"t","v","l">>)
    THEN get(ts, TvlChartId)
    ELSE get(ts, MarketOverviewId)

\* dataForTemplate (lines 203-233): None stands for null or undefined.
DataForTemplate(data, template) ==
    IF template.id = PriceChartId
    THEN IF data.focusToken THEN Some(FocusTokenData)
         ELSE IF data.tokens = "nonempty" THEN Some(TopTokenData)
         ELSE None
    ELSE IF template.id = TvlChartId
    THEN IF data.focusProtocol THEN Some(FocusProtocolData)
         ELSE IF data.protocols = "nonempty" THEN Some(TopProtocolData)
         ELSE None
    ELSE Some(MarketOverviewData)

\* options.title
TitleFor(dataForTemplate, template) ==
    IF template.id = PriceChartId
    THEN (IF dataForTemplate # None /\ TruthyStr(dataForTemplate[1].token[1].symbol)
          THEN StrOf(dataForTemplate[1].token[1].symbol[1]) ELSE "Token") \o " Price Chart"
    ELSE IF template.id = TvlChartId
    THEN (IF dataForTemplate # None /\ TruthyStr(dataForTemplate[1].name)
          THEN StrOf(dataForTemplate[1].name[1]) ELSE "Protocol") \o " TVL Chart"
    ELSE "DeFi Market Overview"

IdleCampaign ==
    [pc |-> "idle", topic |-> <<>>, platforms |-> <<>>, visualizationTypes |-> <<>>,
     postCount |-> 0, includeThread |-> FALSE, primaryType |-> "", data |-> None,
     next |-> 1, pending |-> None, visualizations |-> <<>>, cause |-> "", result |-> None]

RECURSIVE EnterLoop(_, _)
\* The for loop over visualizationTypes from entry `next` up to its next
\* await: a type whose template is missing is skipped (continue); the loop
\* stops before template.generate, or ends.
EnterLoop(ts, c) ==
    IF c.next > Len(c.visualizationTypes) THEN [c EXCEPT !.pc = "assembling"]
    ELSE LET template == ResolveTemplate(ts, c.primaryType, c.visualizationTypes[c.next])
         IN IF template = None THEN EnterLoop(ts, [c EXCEPT !.next = @ + 1])
            ELSE LET dataForTemplate == DataForTemplate(c.data[1], template[1])
                 IN [c EXCEPT !.pc = "generating",
                              !.pending = Some([template |-> template[1],
                                                data |-> dataForTemplate,
                                                title |-> TitleFor(dataForTemplate, template[1])])]

\* catch (error) { throw new Error(`Failed to create social campaign: ...`) }
CampaignFails(c, cause) == [c EXCEPT !.pc = "failed", !.cause = cause, !.pending = None]

\* `${template.id}_${Date.now()}`: the place in the list stands for the clock.
FileName(c) == StrOf(c.pending[1].template.id) \o "_" \o NatStr(c.next)

\* includeThread && platform === 'twitter' ? 'thread' : 'detailed'
CampaignContentType(includeThread, platform) ==
    IF includeThread /\ platform = "twitter" THEN "thread" ELSE "detailed"

\* The contents built for one platform: one entry per visualization.
ContentsFor(c, platform) ==
    [k \in 1..Len(c.visualizations) |->
        LET viz == c.visualizations[k]
            made == generateSocialContent(viz.data, platform,
                                          CampaignContentType(c.includeThread, platform))
        IN [visualization |-> viz.title, imagePath |-> viz.pngPath,
            message |-> made.message, tags |-> made.tags, thread |-> made.thread]]

\* The campaign object that is returned.
CampaignObject(c, jitter) ==
    [topic |-> c.topic,
     visualizations |-> [k \in 1..Len(c.visualizations) |->
                            [type |-> c.visualizations[k].type,
                             title |-> c.visualizations[k].title,
                             htmlPath |-> c.visualizations[k].htmlPath,
                             pngPath |-> c.visualizations[k].pngPath]],
     platformContent |-> [p \in Range(c.platforms) |-> ContentsFor(c, p)],
     suggestedSchedule |-> generatePostSchedule(c.postCount, jitter)]

\* The registry after templates/capabilities is loaded; no campaign yet.
InitCampaign == campaign = IdleCampaign

\* The capability is invoked; it awaits the data of its topic.
CreateSocialCampaign(topic, platforms, visualizationTypes, postCount, includeThread) ==
    /\ campaign.pc = "idle"
    /\ campaign' = [IdleCampaign EXCEPT !.pc = "fetching", !.topic = topic,
                                       !.platforms = platforms,
                                       !.visualizationTypes = visualizationTypes,
                                       !.postCount = postCount,
                                       !.includeThread = includeThread]
    /\ UNCHANGED <<templates, regLog, lastCall, content, pub, fileExists, calls, conv, files, browsers, render, saves>>

\* A fetch of the topic's top lists throws.
FetchFails ==
    /\ campaign.pc = "fetching"
    /\ campaign' = CampaignFails(campaign, "fetch")
    /\ UNCHANGED <<templates, regLog, lastCall, content, pub, fileExists, calls, conv, files, browsers, render, saves>>

\* The fetches return; the loop over the visualization types starts.
FetchReturns(data) ==
    /\ campaign.pc = "fetching"
    /\ campaign' = EnterLoop(templates, [campaign EXCEPT !.primaryType = PrimaryType(campaign.topic),
                                                        !.data = Some(data)])
    /\ UNCHANGED <<templates, regLog, lastCall, content, pub, fileExists, calls, conv, files, browsers, render, saves>>

\* The awaited template.generate settles.  It returns the html, which is
\* written to the output directory, or it throws, which it does whenever
\* it is given null or undefined; nothing in the loop catches.
GeneratorSettles(ok) ==
    /\ campaign.pc = "generating"
    /\ campaign' = IF ok /\ campaign.pending[1].data # None
                   THEN [campaign EXCEPT !.pc = "converting"]
                   ELSE CampaignFails(campaign, "generate")
    /\ UNCHANGED <<templates, regLog, lastCall, content, pub, fileExists, calls, conv, files, browsers, render, saves>>

\* The awaited convertVisualization(filePath, 'png') settles: the
\* visualization is pushed and the loop goes on, or the exception leaves
\* the loop.
ConversionSettles(ok) ==
    /\ campaign.pc = "converting"
    /\ campaign' =
           IF ok
           THEN LET p == campaign.pending[1]
                    viz == [type |-> p.template.id, title |-> p.title,
                            htmlPath |-> FileName(campaign) \o ".html",
                            pngPath |-> FileName(campaign) \o ".png",
                            data |-> p.data[1]]
                IN EnterLoop(templates, [campaign EXCEPT !.visualizations = Append(@, viz),
                                                        !.pending = None,
                                                        !.next = @ + 1])
           ELSE CampaignFails(campaign, "convert")
    /\ UNCHANGED <<templates, regLog, lastCall, content, pub, fileExists, calls, conv, files, browsers, render, saves>>

\* An assembly that posts what it has built as soon as it is built.
AssembleCampaignAndPublish(jitter) ==
    /\ campaign.pc = "assembling"
    /\ campaign' = [campaign EXCEPT !.pc = "returned",
                                   !.result = Some(CampaignObject(campaign, jitter))]
    /\ calls' = calls \o [k \in 1..Len(campaign.platforms) |->
                             [platform |-> campaign.platforms[k], outcome |-> "pending"]]
    /\ UNCHANGED <<templates, regLog, lastCall, content, pub, fileExists, conv, files, browsers, render, saves>>

\* The content of every platform is derived, the schedule is built and the
\* campaign is returned (lines 258-298).
AssembleCampaign(jitter) ==
    /\ campaign.pc = "assembling"
    /\ campaign' = [campaign EXCEPT !.pc = "returned",
                                   !.result = Some(CampaignObject(campaign, jitter))]
    /\ UNCHANGED <<templates, regLog, lastCall, content, pub, fileExists, calls, conv, files, browsers, render, saves>>

NextCampaign ==
    \/ \E t \in Topics, ps \in CampaignPlatformLists, vs \in VisualizationTypeLists,
          n \in 0..MaxPosts, thread \in BOOLEAN :
           CreateSocialCampaign(t, ps, vs, n, thread)
    \/ FetchFails
    \/ \E d \in FetchedData(campaign.topic) : FetchReturns(d)
    \/ \E ok \in BOOLEAN : GeneratorSettles(ok)
    \/ \E ok \in BOOLEAN : ConversionSettles(ok)
    \/ \E j \in Jitters(campaign.postCount) : AssembleCampaign(j)

(***************************************************************************)
(* Format conversion: convertVisualization (distribution/file-distributor  *)
(* .ts, lines 141-279).  A path is a stem and an extension; the output     *)
(* directory is a function from the paths on disk to what each file holds. *)
(* The headless browser is the rendering sandbox.                          *)
(***************************************************************************)

Html == <<"h","t","m","l">>
Png == <<"p","n","g">>
Svg == <<"s","v","g">>

\* outputFormat: 'html' | 'png' | 'svg'
OutputFormats == {Html, Png, Svg}

Path(stem, ext) == [stem |-> stem, ext |-> ext]

\* The output directory before the call.
InitialFiles ==
    (Path("chart", Html) :> "html with svg") @@ (Path("canvas", Html) :> "html")
    @@ (Path("logo", Svg) :> "svg") @@ (Path("photo", Png) :> "png")
    @@ (Path("LOGO", <<"S","V","G">>) :> "svg") @@ (Path("data", <<"j","s","o","n">>) :> "json")

\* The paths conversions are asked for: files on disk and files that are not.
InputPaths ==
    DOMAIN InitialFiles
    \cup { Path("missing", Html), Path("missing", Svg), Path("photo", <<"P","N","G">>) }

WriteFile(fs, path, holds) ==
    [p \in DOMAIN fs \cup {path} |-> IF p = path THEN holds ELSE fs[p]]
Unlink(fs, path) == [p \in DOMAIN fs \ {path} |-> fs[p]]

\* path.extname(inputPath).slice(1).toLowerCase()
InputExt(inputPath) == toLowerCase(inputPath.ext)

\* inputPath.replace(new RegExp(`\\.${inputExt}$`), `.${outputFormat}`): the
\* pattern is the lower-cased extension, and it is matched as it is written.
OutputPath(inputPath, outputFormat) ==
    IF inputPath.ext = InputExt(inputPath) THEN Path(inputPath.stem, outputFormat)
    ELSE inputPath

\* inputPath.replace(/\.svg$/, '.temp.html')
TempHtmlPath(inputPath) ==
    IF inputPath.ext = Svg THEN Path(inputPath.stem \o ".temp", Html) ELSE inputPath

IdleConv ==
    [pc |-> "idle", inputPath |-> None, outputFormat |-> <<>>, inputExt |-> <<>>,
     outputPath |-> None, htmlPath |-> None, browser |-> 0, error |-> None,
     result |-> None, message |-> ""]

\* catch (error) { throw new Error(`Failed to convert visualization: ...`) }.
\* A failure of the file system or of the browser is named by the step
\* that failed, in place of the library's message.
ConversionFails(c, cause) ==
    [c EXCEPT !.pc = "failed", !.message = "Failed to convert visualization: " \o cause]

ConversionReturns(c, path) == [c EXCEPT !.pc = "returned", !.result = Some(path)]

UnsupportedConversionError(inputExt, outputFormat) ==
    "Unsupported conversion: " \o StrOf(inputExt) \o " to " \o StrOf(outputFormat)

\* The pairs the if chain has a branch for.
Converts(inputExt, outputFormat) ==
    \/ inputExt = Html /\ outputFormat = Svg
    \/ inputExt = Html /\ outputFormat = Png
    \/ inputExt = Svg /\ outputFormat = Png

\* The three branches of the if chain, up to their first await.
SupportedBranches(c, fs) ==
    LET inputPath == c.inputPath[1]
        outputPath == c.outputPath[1]
    IN IF c.inputExt = Html /\ c.outputFormat = Svg
       THEN IF inputPath \notin DOMAIN fs
            THEN [conv |-> ConversionFails(c, "readFileSync"), files |-> fs]
            ELSE IF fs[inputPath] # "html with svg"
            THEN [conv |-> ConversionFails(c, "No SVG content found in the HTML"), files |-> fs]
            ELSE [conv |-> ConversionReturns(c, outputPath),
                  files |-> WriteFile(fs, outputPath, "svg")]
       ELSE IF c.inputExt = Html /\ c.outputFormat = Png
       THEN [conv |-> [c EXCEPT !.pc = "launching"], files |-> fs]
       ELSE IF inputPath \notin DOMAIN fs
            THEN [conv |-> ConversionFails(c, "readFileSync"), files |-> fs]
            ELSE [conv |-> [c EXCEPT !.pc = "launching",
                                     !.htmlPath = Some(TempHtmlPath(inputPath))],
                  files |-> WriteFile(fs, TempHtmlPath(inputPath), "html with svg")]

\* A try block that renders whatever it has no branch for.
ConversionBranchesRenderAnything(c, fs) ==
    IF Converts(c.inputExt, c.outputFormat) THEN SupportedBranches(c, fs)
    ELSE [conv |-> [c EXCEPT !.pc = "launching"], files |-> fs]

\* The try block: a supported pair takes its branch, any other pair throws.
ConversionBranches(c, fs) ==
    IF Converts(c.inputExt, c.outputFormat) THEN SupportedBranches(c, fs)
    ELSE [conv |-> ConversionFails(c, UnsupportedConversionError(c.inputExt, c.outputFormat)),
          files |-> fs]

\* A convertVisualization without the check that a conversion is needed.
BeginConversionNoShortcut(inputPath, outputFormat, fs) ==
    ConversionBranches([IdleConv EXCEPT !.inputPath = Some(inputPath),
                                        !.outputFormat = outputFormat,
                                        !.inputExt = InputExt(inputPath),
                                        !.outputPath = Some(OutputPath(inputPath, outputFormat))],
                       fs)

\* convertVisualization up to its first await, its return or its throw.
BeginConversion(inputPath, outputFormat, fs) ==
    LET c == [IdleConv EXCEPT !.inputPath = Some(inputPath),
                              !.outputFormat = outputFormat,
                              !.inputExt = InputExt(inputPath),
                              !.outputPath = Some(OutputPath(inputPath, outputFormat))]
    IN IF c.inputExt = outputFormat
       THEN [conv |-> ConversionReturns(c, inputPath), files |-> fs]
       ELSE ConversionBranches(c, fs)

\* The steps awaited on the page, in order.
PageSteps == <<"newPage", "goto", "evaluate", "setViewport", "screenshot">>

StepAfter(pc) ==
    IF pc = "screenshot" THEN "closing"
    ELSE PageSteps[(CHOOSE k \in 1..Len(PageSteps) : PageSteps[k] = pc) + 1]

\* The file the page is sent to: the temporary host document, or the input.
LoadedPath(c) == IF c.htmlPath # None THEN c.htmlPath[1] ELSE c.inputPath[1]

InitConvert ==
    /\ conv = IdleConv
    /\ files = InitialFiles
    /\ browsers = <<>>

ConvertVisualization(inputPath, outputFormat) ==
    /\ conv.pc = "idle"
    /\ LET begun == BeginConversion(inputPath, outputFormat, files)
       IN /\ conv' = begun.conv
          /\ files' = begun.files
    /\ UNCHANGED <<templates, regLog, lastCall, content, pub, fileExists, calls, campaign, browsers, render, saves>>

\* The awaited puppeteer.launch settles.  It is outside the try block whose
\* finally closes the browser, so its exception goes straight to the catch.
LaunchSettles(ok) ==
    /\ conv.pc = "launching"
    /\ IF ok
       THEN /\ browsers' = Append(browsers, "open")
            /\ conv' = [conv EXCEPT !.pc = "newPage", !.browser = Len(browsers) + 1]
       ELSE /\ browsers' = browsers
            /\ conv' = ConversionFails(conv, "launch")
    /\ UNCHANGED <<templates, regLog, lastCall, content, pub, fileExists, calls, campaign, files, render, saves>>

\* An awaited step on the page settles.  Navigation to a file that is not
\* on disk fails; the screenshot writes the output file; an exception
\* enters the finally block with the error pending.
PageStepSettles(ok) ==
    /\ conv.pc \in Range(PageSteps)
    /\ LET done == ok /\ (conv.pc = "goto" => LoadedPath(conv) \in DOMAIN files)
       IN /\ conv' = IF done THEN [conv EXCEPT !.pc = StepAfter(conv.pc)]
                     ELSE [conv EXCEPT !.pc = "closing", !.error = Some(conv.pc)]
          /\ files' = IF done /\ conv.pc = "screenshot"
                      THEN WriteFile(files, conv.outputPath[1], "png")
                      ELSE files
    /\ UNCHANGED <<templates, regLog, lastCall, content, pub, fileExists, calls, campaign, browsers, render, saves>>

\* The awaited browser.close() of the finally block settles.  When it
\* returns, the svg branch removes its temporary host document, and the
\* pending error, if any, goes on to the catch.  When it throws, the rest of
\* the finally block is skipped, and the browser may or may not be gone.
CloseSettles(ok, gone) ==
    /\ conv.pc = "closing"
    /\ browsers' = [browsers EXCEPT ![conv.browser] = IF ok \/ gone THEN "closed" ELSE @]
    /\ IF ~ok
       THEN /\ conv' = ConversionFails(conv, "close")
            /\ files' = files
       ELSE IF conv.htmlPath # None /\ conv.htmlPath[1] \notin DOMAIN files
       THEN /\ conv' = ConversionFails(conv, "unlinkSync")
            /\ files' = files
       ELSE /\ files' = IF conv.htmlPath # None THEN Unlink(files, conv.htmlPath[1]) ELSE files
            /\ conv' = IF conv.error # None THEN ConversionFails(conv, conv.error[1])
                       ELSE ConversionReturns(conv, conv.outputPath[1])
    /\ UNCHANGED <<templates, regLog, lastCall, content, pub, fileExists, calls, campaign, render, saves>>

NextConvert ==
    \/ \E p \in InputPaths, f \in OutputFormats : ConvertVisualization(p, f)
    \/ \E ok \in BOOLEAN : LaunchSettles(ok)
    \/ \E ok \in BOOLEAN : PageStepSettles(ok)
    \/ \E ok \in BOOLEAN, gone \in BOOLEAN : CloseSettles(ok, gone)

(***************************************************************************)
(* Templates: generate and the payload it is given                         *)
(*                                                                         *)
(* The payload is an object of the caller; generate receives a reference   *)
(* to it.  Beside the properties the probes look at, the payload has the   *)
(* property days, which formatDataForChart of the price chart reads.       *)
(***************************************************************************)

\* const days = data.days || 7 (template-interface.ts, 390)
DefaultDays == 7

\* The generate calls of one run of the model.
MaxRenders == 2

\* The values of a days property: a number, or a string that holds one.
DayValues == {0, 30}

Undefined == [kind |-> "undefined", value |-> 0]
Number(n) == [kind |-> "number", value |-> n]
String(n) == [kind |-> "string", value |-> n]

DaysValues == {Undefined} \cup {Number(n) : n \in DayValues} \cup {String(30)}

\* The payload objects generate is called with.
PayloadObjects == [fields : Payloads, days : DaysValues]

\* The options mappings generate is called with.
OptionsMappings == [days : DaysValues]

\* data.days || 7
DaysOr(days) == IF days.kind = "undefined" \/ days.value = 0 THEN DefaultDays ELSE days.value

\* PriceChartTemplate.generate: the title reads data.token, the days of the
\* options are written into the payload, and formatDataForChart takes the
\* historical prices of the payload or asks for data.days || 7 days.
PriceChartGenerate(data, options) ==
    IF data.fields.isNull THEN [outcome |-> "throws", dataAfter |-> data, days |-> None]
    ELSE LET after == IF options.days.kind = "number"
                      THEN [data EXCEPT !.days = options.days]
                      ELSE data
             fields == data.fields
         IN [outcome |-> "html", dataAfter |-> after,
             days |-> IF Truthy(fields.historicalPrices) /\ IsArray(fields.historicalPrices)
                      THEN None
                      ELSE Some(DaysOr(after.days))]

\* TvlChartTemplate.generate: the title reads data.name and formatDataForChart
\* reads the payload.
TvlChartGenerate(data, options) ==
    [outcome |-> IF data.fields.isNull THEN "throws" ELSE "html",
     dataAfter |-> data, days |-> None]

\* MarketOverviewTemplate.generate: formatDataForCharts reads data.topTokens.
MarketOverviewGenerate(data, options) ==
    [outcome |-> IF data.fields.isNull THEN "throws" ELSE "html",
     dataAfter |-> data, days |-> None]

generate(template, data, options) ==
    IF template.cls = "PriceChartTemplate" THEN PriceChartGenerate(data, options)
    ELSE IF template.cls = "TvlChartTemplate" THEN TvlChartGenerate(data, options)
    ELSE MarketOverviewGenerate(data, options)

\* No generate call yet; the caller's payload object is the empty object.
NoRender ==
    [calls |-> 0, template |-> <<>>, options |-> [days |-> Undefined],
     data |-> [fields |-> EmptyPayload, days |-> Undefined],
     dataAfter |-> [fields |-> EmptyPayload, days |-> Undefined],
     outcome |-> "none", days |-> None, sameObject |-> FALSE]

InitRender == render = NoRender

\* generate is called on a built-in template with a payload object the
\* caller has made.
TemplateGenerate(template, data, options) ==
    /\ render.calls < MaxRenders
    /\ LET r == generate(template, data, options)
       IN render' = [calls |-> render.calls + 1, template |-> template.id, options |-> options,
                     data |-> data, dataAfter |-> r.dataAfter,
                     outcome |-> r.outcome, days |-> r.days, sameObject |-> FALSE]
    /\ UNCHANGED <<templates, regLog, lastCall, content, pub, fileExists, calls, campaign, conv, files, browsers, saves>>

\* generate is called again with the payload object of the call before.
TemplateGenerateAgain(template, options) ==
    /\ render.calls \in 1..(MaxRenders - 1)
    /\ LET r == generate(template, render.dataAfter, options)
       IN render' = [calls |-> render.calls + 1, template |-> template.id, options |-> options,
                     data |-> render.dataAfter, dataAfter |-> r.dataAfter,
                     outcome |-> r.outcome, days |-> r.days, sameObject |-> TRUE]
    /\ UNCHANGED <<templates, regLog, lastCall, content, pub, fileExists, calls, campaign, conv, files, browsers, saves>>

NextGenerate ==
    \/ \E i \in 1..Len(templates), data \in PayloadObjects, options \in OptionsMappings :
           TemplateGenerate(templates[i], data, options)
    \/ \E i \in 1..Len(templates), options \in OptionsMappings :
           TemplateGenerateAgain(templates[i], options)

(***************************************************************************)
(* File distributor: saveVisualization, and the capabilities that call it  *)
(*                                                                         *)
(* The capability saveVisualization saves under the name it is given; the  *)
(* capability distributeToSocial saves under the fixed name                *)
(* 'temp-visualization' and then posts the saved image to every platform.  *)
(* Invocations of the capabilities are asynchronous functions of one       *)
(* process: between two awaits an invocation runs alone, and at an await   *)
(* another invocation may run.  All invocations share the output directory.*)
(***************************************************************************)

\* The invocations that may be in progress together.
SaveIds == {1, 2}

\* The html argument: a document with an svg element, and one without.
HtmlDocs == {"html with svg", "html"}

\* html.match(/<svg[^>]*>[\s\S]*?<\/svg>/i)
HasSvg(html) == html = "html with svg"

\* What the svg file holds: the svg element of the document.
SvgOf(html) == "svg of " \o html

\* What the screenshot holds: the picture of the document the page loaded.
PngOf(page) == "png of " \o page

SaveFormats == {Html, Svg, Png}
ImageFormats == {Png, Svg}
Filenames == {"chart", "report"}
TempVisualization == "temp-visualization"
DistributePlatformLists == {<<"twitter">>, <<"twitter", "telegram">>}

\* path.resolve(outputDir, `${filename}.${extension}`)
SaveOutputPath(s) == Path(s.filename, s.format)
\* path.resolve(outputDir, `${filename}.html`)
SaveHtmlPath(s) == Path(s.filename, Html)

IdleSave ==
    [pc |-> "idle", caller |-> "", html |-> "", filename |-> "", format |-> <<>>,
     workspace |-> FALSE, platforms |-> <<>>, before |-> InitialFiles,
     browser |-> 0, page |-> None, error |-> None, upload |-> None,
     result |-> None, fileUrl |-> FALSE, message |-> "", idx |-> 0,
     posts |-> <<>>, failures |-> 0]

\* The catch of the capability around the catch of saveVisualization.
CapabilityPrefix(caller) ==
    IF caller = "distributeToSocial" THEN "Failed to distribute visualization: "
    ELSE "Failed to save visualization: "

SaveFails(s, cause) ==
    [s EXCEPT !.pc = "failed",
              !.message = CapabilityPrefix(s.caller) \o "Failed to save as "
                              \o StrOf(s.format) \o ": " \o cause]

RECURSIVE PublishFrom(_, _)
\* The loop of distributeToSocial from entry s.idx on, up to its next await:
\* an entry whose image is not on disk or that has no workspace gets a
\* failure; otherwise the image is read and the integration call is issued.
PublishFrom(s, fs) ==
    IF s.idx > Len(s.platforms) THEN [s EXCEPT !.pc = "returned"]
    ELSE IF s.result[1] \notin DOMAIN fs \/ ~s.workspace
    THEN PublishFrom([s EXCEPT !.idx = @ + 1, !.failures = @ + 1], fs)
    ELSE [s EXCEPT !.pc = "calling",
                   !.posts = Append(@, [platform |-> s.platforms[s.idx],
                                        image |-> fs[s.result[1]],
                                        outcome |-> "pending"])]

\* saveVisualization returns { success: true, filePath: outputPath }; the
\* capability distributeToSocial goes on to the loop over the platforms.
SaveReturns(s, fs, hasUrl) ==
    LET returned == [s EXCEPT !.result = Some(SaveOutputPath(s)), !.fileUrl = hasUrl]
    IN IF s.caller = "distributeToSocial"
       THEN PublishFrom([returned EXCEPT !.idx = 1], fs)
       ELSE [returned EXCEPT !.pc = "returned"]

\* The part after the format branches: with a workspace the file is read and
\* the upload is awaited; a read that fails is caught and the call returns.
AfterSaved(s, fs) ==
    IF s.workspace /\ SaveOutputPath(s) \in DOMAIN fs
    THEN [s EXCEPT !.pc = "uploading", !.upload = Some(fs[SaveOutputPath(s)])]
    ELSE SaveReturns(s, fs, FALSE)

\* saveVisualization up to its first await.
BeginSave(s, fs) ==
    IF s.format = Html
    THEN LET written == WriteFile(fs, SaveOutputPath(s), s.html)
         IN [save |-> AfterSaved(s, written), files |-> written]
    ELSE IF s.format = Svg
    THEN IF ~HasSvg(s.html)
         THEN [save |-> SaveFails(s, "No SVG content found in the HTML"), files |-> fs]
         ELSE LET written == WriteFile(fs, SaveOutputPath(s), SvgOf(s.html))
              IN [save |-> AfterSaved(s, written), files |-> written]
    ELSE [save |-> [s EXCEPT !.pc = "launching"],
          files |-> WriteFile(fs, SaveHtmlPath(s), s.html)]

InitSave == saves = [i \in SaveIds |-> IdleSave]

\* The capability saveVisualization is invoked.
SaveVisualization(i, html, filename, format, workspace) ==
    /\ saves[i].pc = "idle"
    /\ LET s == [IdleSave EXCEPT !.caller = "saveVisualization", !.html = html,
                                 !.filename = filename, !.format = format,
                                 !.workspace = workspace, !.before = files]
           r == BeginSave(s, files)
       IN /\ saves' = [saves EXCEPT ![i] = r.save]
          /\ files' = r.files
    /\ UNCHANGED <<templates, regLog, lastCall, content, pub, fileExists, calls, campaign, conv, browsers, render>>

\* The capability distributeToSocial is invoked.
DistributeToSocialCapability(i, html, platforms, format, workspace) ==
    /\ saves[i].pc = "idle"
    /\ LET s == [IdleSave EXCEPT !.caller = "distributeToSocial", !.html = html,
                                 !.filename = TempVisualization, !.format = format,
                                 !.workspace = workspace, !.platforms = platforms,
                                 !.before = files]
           r == BeginSave(s, files)
       IN /\ saves' = [saves EXCEPT ![i] = r.save]
          /\ files' = r.files
    /\ UNCHANGED <<templates, regLog, lastCall, content, pub, fileExists, calls, campaign, conv, browsers, render>>

\* The awaited puppeteer.launch settles; it is outside the try block whose
\* finally closes the browser.
SaveLaunchSettles(i, ok) ==
    /\ saves[i].pc = "launching"
    /\ IF ok
       THEN /\ browsers' = Append(browsers, "open")
            /\ saves' = [saves EXCEPT ![i].pc = "newPage", ![i].browser = Len(browsers) + 1]
       ELSE /\ browsers' = browsers
            /\ saves' = [saves EXCEPT ![i] = SaveFails(@, "launch")]
    /\ UNCHANGED <<templates, regLog, lastCall, content, pub, fileExists, calls, campaign, conv, files, render>>

\* A page step whose exception goes straight to the catch, past the finally
\* block that closes the browser.
SavePageStepSkipsFinally(i, ok) ==
    /\ saves[i].pc \in Range(PageSteps)
    /\ LET s == saves[i]
           done == ok /\ (s.pc = "goto" => SaveHtmlPath(s) \in DOMAIN files)
       IN /\ saves' = [saves EXCEPT ![i] =
                 IF ~done THEN SaveFails([s EXCEPT !.error = Some(s.pc)], s.pc)
                 ELSE IF s.pc = "goto"
                 THEN [s EXCEPT !.pc = StepAfter(s.pc), !.page = Some(files[SaveHtmlPath(s)])]
                 ELSE [s EXCEPT !.pc = StepAfter(s.pc)]]
          /\ files' = IF done /\ s.pc = "screenshot"
                      THEN WriteFile(files, SaveOutputPath(s), PngOf(s.page[1]))
                      ELSE files
    /\ UNCHANGED <<templates, regLog, lastCall, content, pub, fileExists, calls, campaign, conv, browsers, render>>

\* An awaited step on the page settles.  The navigation loads what the html
\* file holds at that time; the screenshot writes the picture of the page.
SavePageStepSettles(i, ok) ==
    /\ saves[i].pc \in Range(PageSteps)
    /\ LET s == saves[i]
           done == ok /\ (s.pc = "goto" => SaveHtmlPath(s) \in DOMAIN files)
       IN /\ saves' = [saves EXCEPT ![i] =
                 IF ~done THEN [s EXCEPT !.pc = "closing", !.error = Some(s.pc)]
                 ELSE IF s.pc = "goto"
                 THEN [s EXCEPT !.pc = StepAfter(s.pc), !.page = Some(files[SaveHtmlPath(s)])]
                 ELSE [s EXCEPT !.pc = StepAfter(s.pc)]]
          /\ files' = IF done /\ s.pc = "screenshot"
                      THEN WriteFile(files, SaveOutputPath(s), PngOf(s.page[1]))
                      ELSE files
    /\ UNCHANGED <<templates, regLog, lastCall, content, pub, fileExists, calls, campaign, conv, browsers, render>>

\* The awaited browser.close() of the finally block settles.  The html file
\* is not removed.  When close throws, the browser may or may not be gone.
SaveCloseSettles(i, ok, gone) ==
    /\ saves[i].pc = "closing"
    /\ browsers' = [browsers EXCEPT ![saves[i].browser] = IF ok \/ gone THEN "closed" ELSE @]
    /\ saves' = [saves EXCEPT ![i] =
           IF ~ok THEN SaveFails(@, "close")
           ELSE IF @.error # None THEN SaveFails(@, @.error[1])
           ELSE AfterSaved(@, files)]
    /\ UNCHANGED <<templates, regLog, lastCall, content, pub, fileExists, calls, campaign, conv, files, render>>

\* The awaited uploadFile settles; its exception is caught.
UploadSettles(i, ok) ==
    /\ saves[i].pc = "uploading"
    /\ saves' = [saves EXCEPT ![i] = SaveReturns(@, files, ok)]
    /\ UNCHANGED <<templates, regLog, lastCall, content, pub, fileExists, calls, campaign, conv, files, browsers, render>>

\* The awaited callIntegration of the loop settles, and the loop goes on.
PostSettles(i, ok) ==
    /\ saves[i].pc = "calling"
    /\ LET s == saves[i]
           settled == [s EXCEPT !.posts[Len(s.posts)].outcome = IF ok THEN "ok" ELSE "throw",
                                !.failures = IF ok THEN @ ELSE @ + 1,
                                !.idx = @ + 1]
       IN saves' = [saves EXCEPT ![i] = PublishFrom(settled, files)]
    /\ UNCHANGED <<templates, regLog, lastCall, content, pub, fileExists, calls, campaign, conv, files, browsers, render>>

\* The steps of the invocation i once it has been made.
SaveSteps(i) ==
    \/ \E ok \in BOOLEAN : SaveLaunchSettles(i, ok)
    \/ \E ok \in BOOLEAN : SavePageStepSettles(i, ok)
    \/ \E ok, gone \in BOOLEAN : SaveCloseSettles(i, ok, gone)
    \/ \E ok \in BOOLEAN : UploadSettles(i, ok)

\* One invocation of the capability saveVisualization.
NextSave ==
    \/ \E html \in HtmlDocs, filename \in Filenames, format \in SaveFormats,
          workspace \in BOOLEAN : SaveVisualization(1, html, filename, format, workspace)
    \/ SaveSteps(1)

\* An invocation of saveVisualization beside a convertVisualization call.
NextRender ==
    \/ NextSave
    \/ NextConvert

\* Two invocations of the capability distributeToSocial.
NextOverlap ==
    \E i \in SaveIds :
        \/ \E html \in HtmlDocs, platforms \in DistributePlatformLists,
              format \in ImageFormats, workspace \in BOOLEAN :
               DistributeToSocialCapability(i, html, platforms, format, workspace)
        \/ SaveSteps(i)
        \/ \E ok \in BOOLEAN : PostSettles(i, ok)

(***************************************************************************)
(* Specifications                                                          *)
(***************************************************************************)

Init == InitRegistry /\ InitContent /\ InitPublish /\ InitCampaign /\ InitConvert /\ InitRender /\ InitSave

\* The state in which the content formatter is about to be called.
InitFormatter ==
    InitRegistry /\ InitContentCall /\ InitPublish /\ InitCampaign /\ InitConvert /\ InitRender /\ InitSave

\* The state of the agent process once templates/capabilities is loaded:
\* the three built-in templates are registered (market-overview.ts, 555-557).
InitLoaded ==
    /\ templates = BuiltInTemplates
    /\ regLog = BuiltInTemplates
    /\ lastCall = NoCall
    /\ InitContent /\ InitPublish /\ InitCampaign /\ InitConvert /\ InitRender /\ InitSave

SpecRegistry == Init /\ [][NextRegistry]_vars
SpecContent == InitFormatter /\ [][NextContent]_vars
SpecPublish == Init /\ [][NextPublish]_vars
SpecVisualize == Init /\ [][NextVisualize]_vars
SpecCampaign == InitLoaded /\ [][NextCampaign]_vars
SpecConvert == Init /\ [][NextConvert]_vars
SpecGenerate == InitLoaded /\ [][NextGenerate]_vars
SpecSave == Init /\ [][NextSave]_vars
SpecRender == Init /\ [][NextRender]_vars
SpecOverlap == Init /\ [][NextOverlap]_vars

(***************************************************************************)
(* Distribution orchestrator: claims                                       *)
(***************************************************************************)

\* How often a platform is named in the platforms argument.
Occurrences(platform) ==
    Cardinality({i \in 1..Len(pub.platforms) : pub.platforms[i] = platform})

\* C1: an exception of one platform's integration call never leaves
\* distributeToSocial, and when the call has returned every requested
\* platform has an entry: a platform (named once) whose call threw has
\* success = false with an error, one whose call answered has success = true.
C1_FailureDoesNotStopSiblings ==
    /\ pub.pc # "threw"
    /\ pub.pc = "done" =>
          /\ \A i \in 1..Len(pub.platforms) : pub.platforms[i] \in DOMAIN pub.results
          /\ \A i \in 1..Len(calls) :
                LET c == calls[i]
                IN Occurrences(c.platform) = 1 =>
                      /\ c.outcome = "throw" =>
                            /\ ~pub.results[c.platform].success
                            /\ pub.results[c.platform].error # None
                      /\ c.outcome = "ok" => pub.results[c.platform].success

\* C1 witness: publish over [A, B] has returned, A's call threw and B's
\* call, made after it, answered.
C1_Witness ==
    /\ pub.pc = "done"
    /\ Len(pub.platforms) = 2
    /\ pub.platforms[1] # pub.platforms[2]
    /\ Len(calls) = 2
    /\ calls[1].platform = pub.platforms[1] /\ calls[1].outcome = "throw"
    /\ calls[2].platform = pub.platforms[2] /\ calls[2].outcome = "ok"
    /\ ~pub.results[pub.platforms[1]].success
    /\ pub.results[pub.platforms[2]].success

\* C2: a platform processed while the image file does not exist gets the
\* image-not-found failure, no integration call is made for it, and the loop
\* goes on with the next platform (or returns after the last one).
C2_MissingArtifactShortCircuitsOnePlatform ==
    [][ (pub.pc = "loop" /\ ~fileExists /\ pub' # pub) =>
            /\ calls' = calls
            /\ pub'.results = Put(pub.results, pub.platforms[pub.idx], ImageNotFound)
            /\ pub'.idx = pub.idx + 1
            /\ pub'.pc = IF pub.idx < Len(pub.platforms) THEN "loop" ELSE "done" ]_vars

\* C2 witness: publish has returned with the image-not-found failure for one
\* platform, which was never called, and a success for another.
C2_Witness ==
    /\ pub.pc = "done"
    /\ \E p, q \in DOMAIN pub.results :
          /\ pub.results[p] = ImageNotFound
          /\ \A i \in 1..Len(calls) : calls[i].platform # p
          /\ pub.results[q].success

\* Whether s ends with suffix.
EndsWith(s, suffix) ==
    Len(s) >= Len(suffix) /\ SubSeq(s, Len(s) - Len(suffix) + 1, Len(s)) = suffix

\* C5: the text sent to a platform (prose, separator, hashtags) is within the
\* platform's character limit; the hashtags are sent whole, and when prose,
\* separator and hashtags together exceed the limit the prose sent ends with
\* the truncation marker.
C5_FinalTextWithinPlatformLimit ==
    \A i \in 1..Len(calls) :
        LET c == calls[i]
            hashtags == pub.formattedTags[c.platform]
            prose == SubSeq(c.text, 1, Len(c.text) - Len(hashtags) - 2)
        IN /\ Len(c.text) <= CharLimit(c.platform)
           /\ EndsWith(c.text, <<"\n", "\n">> \o hashtags)
           /\ Len(pub.message) + 2 + Len(hashtags) > CharLimit(c.platform) =>
                 EndsWith(prose, Ellipsis)

(***************************************************************************)
(* Content formatter: claims                                               *)
(***************************************************************************)

\* The documented tag cap of a short twitter post.
TwitterShortTagCap == 3

\* The index of the first occurrence of x in s.
FirstIndex(s, x) == CHOOSE i \in 1..Len(s) : s[i] = x /\ \A j \in 1..(i - 1) : s[j] # x

\* C3: for content type thread, whatever the shape of the data and the
\* platform, the message returned is the first entry of the thread returned.
C3_ThreadMessageIsFirstEntry ==
    (content.op = "generateSocialContent" /\ content.contentType = "thread") =>
        /\ content.result.thread # None
        /\ content.result.message = content.result.thread[1][1]

\* C4: the tags derived from a payload are at most 10, pairwise different,
\* start with the base tags, and are the values pushed, each at its first
\* occurrence and in that order, with none left out before the cap is reached.
C4_TagsCappedDistinctInOrder ==
    content.op = "generateSocialContent" =>
        LET tags == content.result.tags
            pushed == BaseTags \o PushedTags(content.data)
        IN /\ Len(tags) <= MaxTags
           /\ \A i, j \in 1..Len(tags) : i # j => tags[i] # tags[j]
           /\ SubSeq(tags, 1, Len(BaseTags)) = BaseTags
           /\ \A i \in 1..Len(tags) : tags[i] \in Range(pushed)
           /\ \A i, j \in 1..Len(tags) :
                 i < j => FirstIndex(pushed, tags[i]) < FirstIndex(pushed, tags[j])
           /\ \A k \in 1..Len(pushed) :
                 pushed[k] \notin Range(tags) =>
                    /\ Len(tags) = MaxTags
                    /\ \A i \in 1..Len(tags) : FirstIndex(pushed, tags[i]) < k

\* C4 witness: a payload whose pushed tags repeat a value and hold more than
\* 10 different values; 10 tags came back.
C4_Witness ==
    /\ content.op = "generateSocialContent"
    /\ LET pushed == BaseTags \o PushedTags(content.data)
       IN /\ \E i, j \in 1..Len(pushed) : i < j /\ pushed[i] = pushed[j]
          /\ Cardinality(Range(pushed)) > MaxTags
    /\ Len(content.result.tags) = MaxTags

\* C6: for a token snapshot, content type short and platform twitter, at most
\* 3 tags are returned.
C6_ShortTwitterTagsWithinCap ==
    ( /\ content.op = "generateSocialContent"
      /\ content.data.token # None
      /\ content.contentType = "short"
      /\ content.platform = "twitter" ) =>
        Len(content.result.tags) <= TwitterShortTagCap

(***************************************************************************)
(* Template registry: claims                                               *)
(***************************************************************************)

\* The descriptor most recently registered under id, if any.
LastRegistered(id) ==
    IF \E k \in 1..Len(regLog) : regLog[k].id = id
    THEN Some(regLog[CHOOSE k \in 1..Len(regLog) :
                        /\ regLog[k].id = id
                        /\ \A m \in (k + 1)..Len(regLog) : regLog[m].id # id])
    ELSE None

\* The index of the first register call made with id.
FirstRegistration(id) ==
    CHOOSE k \in 1..Len(regLog) :
        regLog[k].id = id /\ \A m \in 1..(k - 1) : regLog[m].id # id

\* C7: the registry holds one descriptor per registered id, the one most
\* recently registered under it: getAll has no two descriptors with one id,
\* its ids are the registered ids, and get(id) is the latest descriptor.
C7_OneDescriptorPerIdLastWins ==
    LET all == getAll(templates)
    IN /\ \A i, j \in 1..Len(all) : i # j => all[i].id # all[j].id
       /\ {all[i].id : i \in 1..Len(all)} = {regLog[k].id : k \in 1..Len(regLog)}
       /\ \A id \in Ids : get(templates, id) = LastRegistered(id)
       /\ \A id \in Ids : LastRegistered(id) # None => LastRegistered(id)[1] \in Range(all)
       /\ lastCall.op = "get" => lastCall.result = LastRegistered(lastCall.id)

\* C7 witness: an id was registered a second time with another descriptor and
\* get has returned the second one.
C7_Witness ==
    /\ \E k, m \in 1..Len(regLog) :
          /\ k < m
          /\ regLog[k].id = regLog[m].id
          /\ regLog[k] # regLog[m]
          /\ lastCall.op = "get"
          /\ lastCall.id = regLog[m].id
          /\ lastCall.result = Some(regLog[m])

\* C8: findSuitable returns the registered descriptors that are suitable for
\* the data, each once, in the order in which their ids were first registered.
C8_FindSuitableFiltersInRegistrationOrder ==
    lastCall.op = "findSuitable" =>
        LET r == lastCall.result
        IN /\ Range(r) = {t \in Range(templates) : isSuitableFor(t, lastCall.data)}
           /\ \A i, j \in 1..Len(r) : i # j => r[i] # r[j]
           /\ \A i, j \in 1..Len(r) :
                 i < j => FirstRegistration(r[i].id) < FirstRegistration(r[j].id)

\* C8 witness: findSuitable returned two or more descriptors and left out a
\* registered one.
C8_Witness ==
    /\ lastCall.op = "findSuitable"
    /\ Len(lastCall.result) >= 2
    /\ Len(lastCall.result) < Len(templates)

\* C9: findBest returns nothing when no registered template is suitable;
\* else, with a hint that some suitable id contains, the first suitable
\* descriptor whose id contains it; else the first suitable descriptor. What
\* it returns is a member of findSuitable(data).
C9_FindBestFirstMatch ==
    lastCall.op = "findBest" =>
        LET r == lastCall.result
            h == lastCall.hint
            suitable == {i \in 1..Len(templates) : isSuitableFor(templates[i], lastCall.data)}
            hinted == IF h = None THEN {}
                      ELSE {i \in suitable : Includes(templates[i].id, h[1])}
            candidates == IF hinted # {} THEN hinted ELSE suitable
        IN IF suitable = {} THEN r = None
           ELSE /\ r # None
                /\ r[1] \in Range(findSuitableTemplates(templates, lastCall.data))
                /\ \E i \in candidates :
                      /\ r[1] = templates[i]
                      /\ \A j \in candidates : i <= j

\* C9 witness: findBest was given a hint and returned a suitable descriptor
\* that is not the first suitable one.
C9_Witness ==
    /\ lastCall.op = "findBest"
    /\ lastCall.hint # None
    /\ lastCall.result # None
    /\ \E i, j \in 1..Len(templates) :
          /\ i < j
          /\ isSuitableFor(templates[i], lastCall.data)
          /\ lastCall.result[1] = templates[j]

\* C10: on a registry with no template, findSuitable returns the empty
\* sequence and findBest returns nothing, whatever the data and the hint.
C10_EmptyRegistryFindsNothing ==
    templates = <<>> =>
        /\ lastCall.op = "findSuitable" => lastCall.result = <<>>
        /\ lastCall.op = "findBest" => lastCall.result = None

\* C10 witness: findBest has been called with a hint on the empty registry.
C10_Witness ==
    /\ templates = <<>>
    /\ regLog = <<>>
    /\ lastCall.op = "findBest"
    /\ lastCall.hint # None
    /\ lastCall.hint # Some(<<>>)

\* C11: with the built-in templates registered, for a payload that has an
\* array-valued historicalTvl and neither a numeric price.usd nor an array
\* historicalPrices, findSuitable returns the tvl-chart template and no
\* template with the id price-chart.
C11_TvlSeriesSuitsTvlNotPrice ==
    ( /\ lastCall.op = "findSuitable"
      /\ Range(BuiltInTemplates) \subseteq Range(templates)
      /\ ~lastCall.data.isNull
      /\ lastCall.data.historicalTvl = "array"
      /\ lastCall.data.priceUsd \notin {"number", "zero"}
      /\ lastCall.data.historicalPrices # "array" )
    => /\ \E i \in 1..Len(lastCall.result) :
             lastCall.result[i] = [id |-> TvlChartId, name |-> "TVL Chart", cls |-> "TvlChartTemplate"]
       /\ \A i \in 1..Len(lastCall.result) : lastCall.result[i].id # PriceChartId

\* C11 witness: the three built-in templates are registered and findSuitable
\* has answered for a payload with a TVL series and a price object whose usd
\* is not a number.
C11_Witness ==
    /\ templates = BuiltInTemplates
    /\ lastCall.op = "findSuitable"
    /\ lastCall.data.historicalTvl = "array"
    /\ lastCall.data.price = "object"
    /\ lastCall.data.priceUsd = "string"
    /\ Len(lastCall.result) = 1

Schedule == campaign.result[1].suggestedSchedule

\* C14: a campaign that is returned has a schedule of exactly postCount
\* entries.
C14_ScheduleHasPostCountEntries ==
    campaign.pc = "returned" => Len(Schedule) = campaign.postCount

\* C14 witness: a campaign with a visualization was returned for the largest
\* post count.
C14_Witness ==
    /\ campaign.pc = "returned"
    /\ campaign.postCount = MaxPosts
    /\ Len(Schedule) = MaxPosts
    /\ campaign.visualizations # <<>>

\* C15: every schedule entry is assigned to a requested platform, taken in
\* turn: entry k goes to the requested platform at place (k - 1) mod the
\* number of requested platforms.
C15_ScheduleRotatesRequestedPlatforms ==
    campaign.pc = "returned" =>
        \A k \in 1..Len(Schedule) :
            Schedule[k].platform = campaign.platforms[((k - 1) % Len(campaign.platforms)) + 1]

\* C16: in a returned campaign the scheduled times increase strictly from
\* each slot to the next, whatever jitter was drawn.
C16_ScheduledTimesIncrease ==
    campaign.pc = "returned" =>
        \A k \in 1..(Len(Schedule) - 1) :
            Schedule[k].scheduledTime < Schedule[k + 1].scheduledTime

\* C16 witness: a slot drew the largest jitter and the slot after it drew none.
C16_Witness ==
    /\ campaign.pc = "returned"
    /\ \E k \in 1..(Len(Schedule) - 1) :
          /\ Schedule[k].scheduledTime = (k - 1) * SlotSpacingHours + JitterBound - 1
          /\ Schedule[k + 1].scheduledTime = k * SlotSpacingHours

\* C17: from its invocation to its return or failure, campaign assembly
\* makes no platform integration call and starts no publish call.
C17_AssemblyNeverPublishes ==
    campaign.pc # "idle" => calls = <<>> /\ pub = Idle

\* C17 witness: a campaign with content for a platform was returned and
\* nothing was published.
C17_Witness ==
    /\ campaign.pc = "returned"
    /\ \E p \in DOMAIN campaign.result[1].platformContent :
          campaign.result[1].platformContent[p] # <<>>
    /\ calls = <<>>

\* C18: a failure of one visualization type's generator or raster conversion
\* does not fail the campaign: a campaign fails only when its data fetch does.
C18_BranchErrorKeepsCampaign ==
    campaign.pc = "failed" => campaign.cause = "fetch"

(***************************************************************************)
(* Format conversion: claims                                               *)
(***************************************************************************)

\* C19: a conversion to the format the input already has returns the input
\* path, leaves the output directory as it was and launches no browser.
C19_SameFormatIsNoOp ==
    (conv.pc # "idle" /\ conv.inputExt = conv.outputFormat) =>
        /\ conv.pc = "returned"
        /\ conv.result = conv.inputPath
        /\ files = InitialFiles
        /\ browsers = <<>>

\* C19 witness: a png file was converted to png and the call has returned.
C19_Witness ==
    /\ conv.pc = "returned"
    /\ conv.inputPath = Some(Path("photo", Png))
    /\ conv.outputFormat = Png
    /\ conv.result = Some(Path("photo", Png))

\* C20: a conversion between two different formats other than html to svg,
\* html to png and svg to png fails with the unsupported-conversion error,
\* leaves the output directory as it was and launches no browser.
C20_UnsupportedPairFails ==
    ( /\ conv.pc # "idle"
      /\ conv.inputExt # conv.outputFormat
      /\ <<conv.inputExt, conv.outputFormat>> \notin {<<Html, Svg>>, <<Html, Png>>, <<Svg, Png>>} )
    => /\ conv.pc = "failed"
       /\ conv.message = "Failed to convert visualization: Unsupported conversion: "
                         \o StrOf(conv.inputExt) \o " to " \o StrOf(conv.outputFormat)
       /\ conv.result = None
       /\ files = InitialFiles
       /\ browsers = <<>>

\* C20 witness: a png file was asked to become html and the call has failed.
C20_Witness ==
    /\ conv.pc = "failed"
    /\ conv.inputPath = Some(Path("photo", Png))
    /\ conv.outputFormat = Html
    /\ files = InitialFiles

(***************************************************************************)
(* Claims about the publish state machine, the hashtags, the campaign      *)
(* fallback, the registry order and the temporary host document            *)
(***************************************************************************)

\* C23: within one publish call the place in the platform list never goes
\* back; the integration is called only from the loop, for the entry the
\* loop is at, with the image on disk and a workspace, once; and when its
\* call settles, that entry's result is recorded, as a success when the
\* integration answered and as a failure when it threw, and the loop moves
\* to the next entry.
C23_OneAttemptPerEntryNoRetry ==
    [][ /\ pub.pc \in {"loop", "calling"} => pub'.idx >= pub.idx
        /\ Len(calls') \in {Len(calls), Len(calls) + 1}
        /\ Len(calls') = Len(calls) + 1 =>
              /\ pub.pc = "loop" /\ pub'.pc = "calling" /\ pub'.idx = pub.idx
              /\ fileExists /\ pub.workspace
              /\ calls'[Len(calls')].platform = pub.platforms[pub.idx]
        /\ (pub.pc = "loop" /\ pub' # pub /\ (~fileExists \/ ~pub.workspace)) =>
              /\ calls' = calls
              /\ pub'.idx = pub.idx + 1
              /\ ~pub'.results[pub.platforms[pub.idx]].success
        /\ (pub.pc = "calling" /\ pub' # pub) =>
              /\ pub'.idx = pub.idx + 1
              /\ pub'.pc \in {"loop", "done"}
              /\ pub'.results[pub.platforms[pub.idx]].success
                     = (calls'[Len(calls')].outcome = "ok") ]_vars

\* C23 witness: the call for the first of two entries threw, the call has
\* ended, and the integration was called once for each entry.
C23_Witness ==
    /\ pub.pc = "done"
    /\ Len(pub.platforms) = 2
    /\ Len(calls) = 2
    /\ calls[1].outcome = "throw"
    /\ calls[1].platform = pub.platforms[1]
    /\ calls[2].platform = pub.platforms[2]

RECURSIVE SplitOnSpace(_)
\* The pieces of a string between its spaces.
SplitOnSpace(s) ==
    IF \A i \in 1..Len(s) : s[i] # " " THEN <<s>>
    ELSE LET k == CHOOSE i \in 1..Len(s) : s[i] = " " /\ \A j \in 1..(i - 1) : s[j] # " "
         IN <<SubSeq(s, 1, k - 1)>> \o SplitOnSpace(SubSeq(s, k + 1, Len(s)))

\* The hashtags a platform may carry; telegram has no cap.
HashtagCap(platform, n) ==
    IF platform = "twitter" THEN (IF n < 5 THEN n ELSE 5)
    ELSE IF platform = "linkedin" THEN (IF n < 8 THEN n ELSE 8)
    ELSE n

\* C25: for every platform of a publish call, the formatted hashtags are, in
\* order, the first tags up to the platform's cap (5 for twitter, 8 for
\* linkedin, all for telegram), each without its whitespace and with '#' in
\* front, with one space between two hashtags.
C25_HashtagsFormattedAndCapped ==
    pub.pc # "idle" =>
        \A p \in Range(pub.platforms) :
            LET text == pub.formattedTags[p]
                kept == HashtagCap(p, Len(pub.tags))
                pieces == IF text = <<>> THEN <<>> ELSE SplitOnSpace(text)
            IN /\ Len(pieces) = kept
               /\ \A i \in 1..kept :
                     /\ pieces[i][1] = "#"
                     /\ \A j \in 1..Len(pieces[i]) : ~IsSpace(pieces[i][j])
                     /\ Tail(pieces[i])
                            = SelectSeq(pub.tags[i], LAMBDA c : c \notin {" ", "\t", "\n"})

\* C25 witness: a call for twitter and linkedin was given more than eight
\* tags, and one of the first eight has spaces in it.
C25_Witness ==
    /\ pub.pc # "idle"
    /\ Range(pub.platforms) = {"twitter", "linkedin"}
    /\ Len(pub.tags) > 8
    /\ \E i \in 1..8 : \E j \in 1..Len(pub.tags[i]) : pub.tags[i][j] = " "

\* C27: when distributeToSocial returns, the mapping has an entry for every
\* requested platform and for nothing else; an entry with success has no
\* error and an entry without success has an error that is not empty; and
\* without a workspace every entry is a failure and the integration was
\* never called.
C27_ResultMapWellFormed ==
    pub.pc = "done" =>
        /\ DOMAIN pub.results = Range(pub.platforms)
        /\ \A p \in DOMAIN pub.results :
              LET entry == pub.results[p]
              IN IF entry.success THEN entry.error = None
                 ELSE entry.error # None /\ entry.error[1] # ""
        /\ ~pub.workspace =>
              /\ \A p \in DOMAIN pub.results : ~pub.results[p].success
              /\ calls = <<>>

\* C27 witness: a call without a workspace for two different platforms has
\* returned while the image was on disk.
C27_Witness ==
    /\ pub.pc = "done"
    /\ ~pub.workspace
    /\ fileExists
    /\ Cardinality(DOMAIN pub.results) = 2

\* C24: a visualization type that no registered template has as its id is
\* rendered with the price-chart template when it contains "price", else
\* with the tvl-chart template when it contains "tvl", else with the
\* market-overview template, whatever the topic.
C24_FallbackByTypeAlone ==
    campaign.pc = "generating" =>
        LET vizType == campaign.visualizationTypes[campaign.next]
            used == campaign.pending[1].template.id
        IN (\A i \in 1..Len(templates) : templates[i].id # vizType) =>
               used = IF \E k \in 0..(Len(vizType) - 5) : SubSeq(vizType, k + 1, k + 5) = <<"p","r","i","c","e">>
                      THEN PriceChartId
                      ELSE IF \E k \in 0..(Len(vizType) - 3) : SubSeq(vizType, k + 1, k + 3) = <<"t","v","l">>
                      THEN TvlChartId
                      ELSE MarketOverviewId

\* Two sequences of descriptors list the ids they share in the same order.
SameRelativeOrder(before, after) ==
    \A i, j \in 1..Len(before) : \A k, l \in 1..Len(after) :
        (i < j /\ before[i].id = after[k].id /\ before[j].id = after[l].id) => k < l

\* C29: a register call for an id that is already registered leaves the
\* ids of the registry in the order they had and puts the new descriptor
\* where the old one of that id was; for every payload, the templates that
\* findSuitableTemplates returns before and after the call come in the same
\* relative order, and findBestTemplate without a hint still returns the
\* first of them.
C29_ReRegistrationKeepsPlace ==
    [][ ( /\ Len(regLog') = Len(regLog) + 1
          /\ \E i \in 1..Len(templates) : templates[i].id = regLog'[Len(regLog')].id )
        => /\ Len(templates') = Len(templates)
           /\ \A i \in 1..Len(templates) :
                 templates'[i] = IF templates[i].id = regLog'[Len(regLog')].id
                                 THEN regLog'[Len(regLog')]
                                 ELSE templates[i]
           /\ \A d \in Payloads :
                 /\ SameRelativeOrder(findSuitableTemplates(templates, d),
                                      findSuitableTemplates(templates', d))
                 /\ findBestTemplate(templates', d, None)
                        = IF findSuitableTemplates(templates', d) = <<>> THEN None
                          ELSE Some(findSuitableTemplates(templates', d)[1]) ]_vars

\* C29 witness: the id registered first was registered again with another
\* descriptor after a second id, and the new descriptor is still first.
C29_Witness ==
    /\ Len(regLog) = 3
    /\ regLog[1].id = regLog[3].id
    /\ regLog[1] # regLog[3]
    /\ regLog[2].id # regLog[1].id
    /\ templates = <<regLog[3], regLog[2]>>

\* C30: when a conversion from svg to png has ended, the temporary host
\* document it wrote is not on disk.
C30_TempDocumentRemoved ==
    (conv.pc \in {"returned", "failed"} /\ conv.htmlPath # None) =>
        conv.htmlPath[1] \notin DOMAIN files

(***************************************************************************)
(* Claims about generate and the caller's payload                          *)
(***************************************************************************)

\* C28: after generate has been called on a built-in template, the payload
\* object it was given holds what it held before the call, whatever the
\* template, the payload and the options.
C28_GenerateKeepsPayload ==
    render.outcome # "none" => render.dataAfter = render.data

(***************************************************************************)
(* Claims about saved files, rendering browsers and overlapping            *)
(* invocations                                                             *)
(***************************************************************************)

\* C21: when a save under the name N in the format F has returned, N.F is
\* in the output directory, and every other path is there exactly if it was
\* there before the call, holding what it held before the call.
C21_SaveWritesOnlyOutputFile ==
    saves[1].pc = "returned" =>
        LET s == saves[1]
        IN /\ SaveOutputPath(s) \in DOMAIN files
           /\ \A p \in (DOMAIN files \cup DOMAIN s.before) \ {SaveOutputPath(s)} :
                 /\ p \in DOMAIN files
                 /\ p \in DOMAIN s.before
                 /\ files[p] = s.before[p]

\* A call has ended: it has returned or thrown.
Ended(pc) == pc \in {"returned", "failed"}

\* The browsers the calls hold.
HeldBrowsers == {b \in {conv.browser, saves[1].browser} : b # 0}

OwnImage(s) == IF s.format = Png THEN PngOf(s.html) ELSE SvgOf(s.html)

\* C26: every image an invocation of distributeToSocial has handed to a
\* platform integration is the image of its own html.
C26_EachPublishesOwnImage ==
    \A i \in SaveIds : \A k \in 1..Len(saves[i].posts) :
        saves[i].posts[k].image = OwnImage(saves[i])

=============================================================================
